---- MODULE Spec2Model ----
(***************************************************************************)
(* A model of goflyway's SQL statement splitter (split.go).                *)
(*                                                                         *)
(* Text is a sequence of runes; a rune is a one-character string, except   *)
(* the two-byte rune U+00E0 which is written "U+00E0".  The reader         *)
(* (bufio.Reader over the input) is the pair of the text and the position  *)
(* of the next rune to read.  The tokenizer's methods are operators that   *)
(* take the reader's position and return their result together with the    *)
(* position they leave the reader at; Split's loop is the state machine.   *)
(*                                                                         *)
(* SplitByDelimiter (the line splitter that honours StatementBegin and     *)
(* StatementEnd marker lines) is a second state machine, SpecByDelimiter,  *)
(* over variables of its own: one step per line the scanner returns.       *)
(***************************************************************************)
EXTENDS Integers, Sequences, FiniteSets, TLC

(***************************************************************************)
(* Runes and the unicode predicates the code uses.                         *)
(***************************************************************************)
LowerLetters == <<"a","b","c","d","e","f","g","h","i","j","k","l","m",
                  "n","o","p","q","r","s","t","u","v","w","x","y","z">>
UpperLetters == <<"A","B","C","D","E","F","G","H","I","J","K","L","M",
                  "N","O","P","Q","R","S","T","U","V","W","X","Y","Z">>

\* U+00E0 (a with grave) is a letter whose UTF-8 encoding is the bytes C3 A0;
\* U+00C0 is its upper case; U+00A0 is the no-break space.
AGrave == "U+00E0"
AGraveUpper == "U+00C0"
NBSP == "U+00A0"

AsciiLetters == {LowerLetters[i] : i \in 1..26} \cup {UpperLetters[i] : i \in 1..26}
Digits == {"0","1","2","3","4","5","6","7","8","9"}

\* unicode.IsLetter
IsLetter(r) == r \in AsciiLetters \cup {AGrave, AGraveUpper}

\* unicode.IsDigit
IsDigit(r) == r \in Digits

\* unicode.IsSpace (the Latin-1 spaces)
IsSpace(r) == r \in {" ", "\n", "\t", "\r", "\f", NBSP}

\* isWordRune
isWordRune(r) == IsLetter(r) \/ IsDigit(r) \/ r = "_"

\* unicode.ToUpper on one rune
ToUpperRune(r) ==
  IF \E i \in 1..26 : LowerLetters[i] = r
    THEN UpperLetters[CHOOSE i \in 1..26 : LowerLetters[i] = r]
    ELSE IF r = AGrave THEN AGraveUpper ELSE r

\* strings.ToUpper
ToUpper(s) == [i \in 1..Len(s) |-> ToUpperRune(s[i])]

\* The last byte of a rune's UTF-8 encoding, converted back to a rune
\* (rune(s[len(s)-1]) in Go): an ASCII rune is its own byte, U+00E0 ends in
\* the byte A0, which as a rune is U+00A0.
LastByteAsRune(r) == IF r \in {AGrave, NBSP} THEN NBSP
                     ELSE IF r = AGraveUpper THEN "U+0080" ELSE r

\* strings.HasPrefix / HasSuffix / TrimPrefix / TrimSuffix / TrimSpace
HasPrefix(s, p) == Len(s) >= Len(p) /\ SubSeq(s, 1, Len(p)) = p
HasSuffix(s, p) == Len(s) >= Len(p) /\ SubSeq(s, Len(s) - Len(p) + 1, Len(s)) = p
TrimPrefix(s, p) == IF HasPrefix(s, p) THEN SubSeq(s, Len(p) + 1, Len(s)) ELSE s
TrimSuffix(s, p) == IF HasSuffix(s, p) THEN SubSeq(s, 1, Len(s) - Len(p)) ELSE s

RECURSIVE TrimLeft(_)
TrimLeft(s) == IF s # <<>> /\ IsSpace(Head(s)) THEN TrimLeft(Tail(s)) ELSE s

RECURSIVE TrimRight(_)
TrimRight(s) == IF s # <<>> /\ IsSpace(s[Len(s)])
                  THEN TrimRight(SubSeq(s, 1, Len(s) - 1)) ELSE s

TrimSpace(s) == TrimRight(TrimLeft(s))

KwDELIMITER == <<"D","E","L","I","M","I","T","E","R">>
KwBEGIN == <<"B","E","G","I","N">>
KwEND == <<"E","N","D">>
KwAS == <<"A","S">>
Semi == <<";">>

(***************************************************************************)
(* The reader.  src = [text, errAt]: reading rune number errAt (and any    *)
(* later one) fails with an I/O error; errAt = 0 is a stream that only     *)
(* ever reports end of stream.                                             *)
(***************************************************************************)
\* Tokenizer.readRune: the rune at position p, or "EOF", or "ERR".
readRune(src, p) ==
  IF src.errAt # 0 /\ p >= src.errAt THEN "ERR"
  ELSE IF p > Len(src.text) THEN "EOF"
  ELSE src.text[p]

\* Tokenizer.peekRune: ReadRune followed by UnreadRune; the position is unchanged.
peekRune(src, p) == readRune(src, p)

IsErr(r) == r \in {"EOF", "ERR"}

Tok(type, value, word, p, err) ==
  [Type |-> type, Value |-> value, DelimiterWord |-> word, pos |-> p, err |-> err]

(***************************************************************************)
(* The tokenizer.  Every reader returns the text it built, the position it *)
(* leaves the reader at, and err: "nil", "EOF" (io.EOF) or "ERR" (any      *)
(* other stream error).                                                    *)
(***************************************************************************)
RECURSIVE readQuotedStringLoop(_, _, _, _)
readQuotedStringLoop(src, p, quote, builder) ==
  LET r == readRune(src, p) IN
  IF IsErr(r) THEN Tok("TokenText", builder, <<>>, p, r)
  ELSE LET b == Append(builder, r) IN
    IF r = quote
      THEN LET next == peekRune(src, p + 1) IN
           IF next = "ERR" THEN Tok("TokenText", b, <<>>, p + 1, "ERR")
           ELSE IF next = "EOF" THEN Tok("TokenText", b, <<>>, p + 1, "nil")
           ELSE IF next = quote
             THEN readQuotedStringLoop(src, p + 2, quote, Append(b, quote))
           ELSE Tok("TokenText", b, <<>>, p + 1, "nil")
      ELSE readQuotedStringLoop(src, p + 1, quote, b)

RECURSIVE readQuotedStringNoEscapeLoop(_, _, _, _)
readQuotedStringNoEscapeLoop(src, p, quote, builder) ==
  LET r == readRune(src, p) IN
  IF IsErr(r) THEN Tok("TokenText", builder, <<>>, p, r)
  ELSE IF r = quote THEN Tok("TokenText", Append(builder, r), <<>>, p + 1, "nil")
  ELSE readQuotedStringNoEscapeLoop(src, p + 1, quote, Append(builder, r))

\* Faulty variant of readQuotedString: the first quote character closes the literal,
\* a doubled quote is not an escape.
readQuotedStringNoEscape(src, p, quote) ==
  readQuotedStringNoEscapeLoop(src, p, quote, <<quote>>)

\* Tokenizer.readQuotedString: the opening quote has been read, p is the
\* position after it.
readQuotedString(src, p, quote) == readQuotedStringLoop(src, p, quote, <<quote>>)

\* Faulty variant of lineCommentEnds: a ';' ends the comment as well.
lineCommentEndsAtSemicolon(r) == r = "\n" \/ r = ";"

\* Lines 133-135: the rune after which the loop of readLineComment is left.
lineCommentEnds(r) == r = "\n"

RECURSIVE readLineCommentLoop(_, _, _)
readLineCommentLoop(src, p, builder) ==
  LET r == readRune(src, p) IN
  IF IsErr(r)
    THEN Tok("TokenText", builder, <<>>, p, IF r = "EOF" THEN "nil" ELSE r)
    ELSE IF lineCommentEnds(r) THEN Tok("TokenText", Append(builder, r), <<>>, p + 1, "nil")
    ELSE readLineCommentLoop(src, p + 1, Append(builder, r))

\* Tokenizer.readLineComment: the first '-' has been read, p is the position
\* of the second one.
readLineComment(src, p) ==
  LET second == readRune(src, p) IN
  IF IsErr(second)
    THEN Tok("TokenText", <<"-">>, <<>>, p, IF second = "EOF" THEN "nil" ELSE second)
    ELSE readLineCommentLoop(src, p + 1, <<"-", second>>)

RECURSIVE readBlockCommentLoop(_, _, _)
readBlockCommentLoop(src, p, builder) ==
  LET r == readRune(src, p) IN
  IF IsErr(r) THEN Tok("TokenText", builder, <<>>, p, r)
  ELSE LET b == Append(builder, r) IN
    IF r = "*"
      THEN LET next == peekRune(src, p + 1) IN
           IF next = "ERR" THEN Tok("TokenText", b, <<>>, p + 1, "ERR")
           ELSE IF next = "EOF" THEN Tok("TokenText", b, <<>>, p + 1, "nil")
           ELSE IF next = "/" THEN Tok("TokenText", Append(b, "/"), <<>>, p + 2, "nil")
           ELSE readBlockCommentLoop(src, p + 1, b)
      ELSE readBlockCommentLoop(src, p + 1, b)

\* Tokenizer.readBlockComment: the '/' has been read, p is the position of
\* the '*'.
readBlockComment(src, p) ==
  LET second == readRune(src, p) IN
  IF IsErr(second) THEN Tok("TokenText", <<"/">>, <<>>, p, second)
  ELSE readBlockCommentLoop(src, p + 1, <<"/", second>>)

\* The sliding window of readUntilBlockDelimiter after one more rune.
SlideWindow(window, n, r) ==
  IF Len(window) < n THEN Append(window, r) ELSE Append(Tail(window), r)

\* Faulty variant of endDelimOf: the last '$' of the closing tag is not part
\* of the sequence looked for.
endDelimOfOpenTag(tag) == <<"$">> \o tag

\* Line 184: the sequence that closes the body opened with this tag.
endDelimOf(tag) == <<"$">> \o tag \o <<"$">>

RECURSIVE readUntilBlockDelimiterLoop(_, _, _, _, _)
readUntilBlockDelimiterLoop(src, p, endRunes, builder, window) ==
  LET r == readRune(src, p) IN
  IF IsErr(r) THEN [val |-> builder, pos |-> p, err |-> r]
  ELSE LET w == SlideWindow(window, Len(endRunes), r) IN
    IF Len(w) >= Len(endRunes) /\ w = endRunes
      THEN [val |-> Append(builder, r), pos |-> p + 1, err |-> "nil"]
      ELSE readUntilBlockDelimiterLoop(src, p + 1, endRunes, Append(builder, r), w)

\* Faulty variant of readUntilBlockDelimiter: the body ends at `$$` whatever the tag.
readUntilBlockDelimiterAnyTag(src, p, tag) ==
  readUntilBlockDelimiterLoop(src, p, <<"$", "$">>, <<>>, <<>>)

\* Tokenizer.readUntilBlockDelimiter
readUntilBlockDelimiter(src, p, tag) ==
  readUntilBlockDelimiterLoop(src, p, endDelimOf(tag), <<>>, <<>>)

RECURSIVE readUntilRuneLoop(_, _, _, _)
readUntilRuneLoop(src, p, delim, builder) ==
  LET r == readRune(src, p) IN
  IF IsErr(r) THEN [val |-> builder, pos |-> p, err |-> r]
  ELSE IF r = delim THEN [val |-> builder, pos |-> p, err |-> "nil"]
  ELSE readUntilRuneLoop(src, p + 1, delim, Append(builder, r))

\* Tokenizer.readUntilRune: the delimiter is put back, so the position
\* returned is the delimiter's.
readUntilRune(src, p, delim) == readUntilRuneLoop(src, p, delim, <<>>)

\* Faulty variant of DelimiterWordOf: the text after the keyword is not trimmed.
DelimiterWordOfUntrimmed(fullCommand) == TrimPrefix(fullCommand, KwDELIMITER)

\* The delimiter word of a complete directive text.
DelimiterWordOf(fullCommand) ==
  TrimSpace(TrimSpace(TrimPrefix(fullCommand, KwDELIMITER)))

RECURSIVE processDelimiterCommandLoop(_, _, _)
processDelimiterCommandLoop(src, p, builder) ==
  LET r == readRune(src, p) IN
  IF IsErr(r)
    THEN Tok("TokenDelimiterCommand", builder, <<>>, p,
             IF r = "EOF" THEN "nil" ELSE r)
    ELSE LET b == Append(builder, r) IN
      IF r = "\n" \/ r = ";"
        THEN Tok("TokenDelimiterCommand", b, DelimiterWordOf(b), p + 1, "nil")
        ELSE processDelimiterCommandLoop(src, p + 1, b)

\* processDelimiterCommand
processDelimiterCommand(src, p, commandStart) ==
  processDelimiterCommandLoop(src, p, commandStart)

RECURSIVE skipSpaceAfterAs(_, _, _)
\* The whitespace loop of processAsBlockStart: [val, pos, err].
skipSpaceAfterAs(src, p, result) ==
  LET peek == peekRune(src, p) IN
  IF peek = "ERR" THEN [val |-> result, pos |-> p, err |-> "ERR"]
  ELSE IF peek = "EOF" \/ ~IsSpace(peek) THEN [val |-> result, pos |-> p, err |-> "nil"]
  ELSE skipSpaceAfterAs(src, p + 1, Append(result, peek))

\* Faulty variant of unterminatedBody: the body read before the end of the
\* stream is dropped.
unterminatedBodyDropped(result, blockContent) == result

\* Lines 343-348: the token text when the stream ends inside the body.
unterminatedBody(result, blockContent) == result \o blockContent

\* Faulty variant of plainAs: the whitespace skipped after AS is not part of
\* the token.
plainAsWithoutSpace(result) == SubSeq(result, 1, 2)

\* Lines 360-361: the token text when no '$' follows AS and the whitespace.
plainAs(result) == result

\* Tokenizer.processAsBlockStart
processAsBlockStart(src, p, word) ==
  LET sk == skipSpaceAfterAs(src, p, word) IN
  IF sk.err = "ERR" THEN Tok("TokenText", sk.val, <<>>, sk.pos, "ERR")
  ELSE LET peek == peekRune(src, sk.pos) IN
    IF peek = "ERR" THEN Tok("TokenText", sk.val, <<>>, sk.pos, "ERR")
    ELSE IF peek = "EOF" THEN Tok("TokenText", sk.val, <<>>, sk.pos, "nil")
    ELSE IF peek = "$"
      THEN LET result1 == Append(sk.val, "$")
               tg == readUntilRune(src, sk.pos + 1, "$")
           IN
           IF tg.err = "ERR" THEN Tok("TokenText", result1 \o tg.val, <<>>, tg.pos, "ERR")
           ELSE IF tg.err = "EOF" THEN Tok("TokenText", result1 \o tg.val, <<>>, tg.pos, "nil")
           ELSE LET result2 == Append(result1 \o tg.val, "$")
                    blk == readUntilBlockDelimiter(src, tg.pos + 1, tg.val)
                IN
                IF blk.err = "ERR" THEN Tok("TokenText", result2, <<>>, blk.pos, "ERR")
                ELSE IF blk.err = "EOF"
                  THEN Tok("TokenText", unterminatedBody(result2, blk.val), <<>>,
                           blk.pos, "nil")
                ELSE Tok("TokenText", result2 \o blk.val, <<>>, blk.pos, "nil")
      ELSE Tok("TokenText", plainAs(sk.val), <<>>, sk.pos, "nil")

\* The keyword switch at the end of readWord.
classifyWord(src, p, word) ==
  LET upperWord == ToUpper(word) IN
  IF upperWord = KwBEGIN THEN Tok("TokenBegin", word, <<>>, p, "nil")
  ELSE IF upperWord = KwEND THEN Tok("TokenEnd", word, <<>>, p, "nil")
  ELSE IF upperWord = KwDELIMITER THEN processDelimiterCommand(src, p, word)
  ELSE IF upperWord = KwAS THEN processAsBlockStart(src, p, word)
  ELSE Tok("TokenText", word, <<>>, p, "nil")

RECURSIVE readWordLoop(_, _, _)
readWordLoop(src, p, builder) ==
  LET r == peekRune(src, p) IN
  IF r = "ERR" THEN Tok("TokenText", builder, <<>>, p, "ERR")
  ELSE IF r = "EOF" \/ ~isWordRune(r) THEN classifyWord(src, p, builder)
  ELSE readWordLoop(src, p + 1, Append(builder, r))

\* Tokenizer.readWord: the first rune has been read, p is the position
\* after it.
readWord(src, p, first) == readWordLoop(src, p, <<first>>)

\* Tokenizer.NextToken, with the reader at position p.
NextToken(src, p) ==
  LET r == readRune(src, p) IN
  IF IsErr(r) THEN Tok("TokenText", <<>>, <<>>, p, r)
  ELSE IF r = "'" \/ r = "\"" THEN readQuotedString(src, p + 1, r)
  ELSE IF r = "-"
    THEN LET next == peekRune(src, p + 1) IN
         IF next = "ERR" THEN Tok("TokenText", <<r>>, <<>>, p + 1, "ERR")
         ELSE IF next = "-" THEN readLineComment(src, p + 1)
         ELSE Tok("TokenText", <<r>>, <<>>, p + 1, "nil")
  ELSE IF r = "/"
    THEN LET next == peekRune(src, p + 1) IN
         IF next = "ERR" THEN Tok("TokenText", <<r>>, <<>>, p + 1, "ERR")
         ELSE IF next = "*" THEN readBlockComment(src, p + 1)
         ELSE Tok("TokenText", <<r>>, <<>>, p + 1, "nil")
  ELSE IF r = ";" THEN Tok("TokenSemicolon", Semi, <<>>, p + 1, "nil")
  ELSE IF IsLetter(r) \/ r = "_" THEN readWord(src, p + 1, r)
  ELSE Tok("TokenText", <<r>>, <<>>, p + 1, "nil")

(***************************************************************************)
(* Raw-scan mode.                                                          *)
(***************************************************************************)
RawResult(content, delim, p, err, via) ==
  [content |-> content, nextDelim |-> delim, pos |-> p, err |-> err, via |-> via]

\* Whether the text before a matched DELIMITER word lets the word start a
\* directive: the code looks at the last BYTE of that text.
boundaryBefore(tmp) ==
  tmp = <<>> \/ LET last == LastByteAsRune(tmp[Len(tmp)]) IN last = ";" \/ IsSpace(last)

\* Faulty variant of posAfterMatch: the rune that completes the delimiter is
\* pushed back.
posAfterMatchUnread(p) == p

\* Lines 431-441: the reader's position after the rune at position p completed
\* the delimiter.
posAfterMatch(p) == p + 1

\* Faulty variant of matchesDelimiter: a ';' ends the scan as well.
matchesDelimiterOrSemicolon(s, delim) == HasSuffix(s, delim) \/ HasSuffix(s, Semi)

\* Line 438: whether the text read so far ends with the active delimiter.
matchesDelimiter(s, delim) == HasSuffix(s, delim)

\* Faulty variant of delimAfterMatch: a match of the active delimiter makes ';'
\* the delimiter again.
delimAfterMatchReset(delim) == Semi

\* Line 440: the delimiter returned with a match of the active delimiter.
delimAfterMatch(delim) == delim

RECURSIVE readUntilDelimiterLoop(_, _, _, _)
\* via records which return statement was taken: "delim" (the active
\* delimiter was matched), "directive" (a DELIMITER directive was read),
\* "eof" or "err".
readUntilDelimiterLoop(src, p, delim, builder) ==
  LET r == readRune(src, p) IN
  IF IsErr(r)
    THEN RawResult(builder, delim, p, r, IF r = "EOF" THEN "eof" ELSE "err")
  ELSE LET s == Append(builder, r) IN
    IF matchesDelimiter(s, delim)
      THEN RawResult(TrimSuffix(s, delim), delimAfterMatch(delim), posAfterMatch(p),
                     "nil", "delim")
    ELSE IF HasSuffix(ToUpper(s), KwDELIMITER)
      THEN LET tmp == SubSeq(s, 1, Len(s) - Len(KwDELIMITER)) IN
           IF ~boundaryBefore(tmp)
             THEN readUntilDelimiterLoop(src, p + 1, delim, s)
           ELSE LET r2 == readRune(src, p + 1) IN
             IF IsErr(r2)
               THEN RawResult(tmp, Semi, p + 1, r2, IF r2 = "EOF" THEN "eof" ELSE "err")
             ELSE IF r2 = ";" THEN RawResult(tmp, Semi, p + 2, "nil", "directive")
             ELSE IF ~IsSpace(r2) THEN readUntilDelimiterLoop(src, p + 1, delim, s)
             ELSE LET token == processDelimiterCommand(src, p + 2, KwDELIMITER) IN
               IF token.err # "nil"
                 THEN RawResult(tmp, delim, token.pos, token.err, "err")
                 ELSE RawResult(tmp, token.DelimiterWord, token.pos, "nil", "directive")
    ELSE readUntilDelimiterLoop(src, p + 1, delim, s)

\* readUntilDelimiter
readUntilDelimiter(src, p, delim) == readUntilDelimiterLoop(src, p, delim, <<>>)

(***************************************************************************)
(* Inputs.  The inputs of the repository's tests, and every text made of   *)
(* at most MaxFrags fragments of one of the families below.                *)
(***************************************************************************)
\* split_test.go TestMultipleStatements
TestMultipleStatementsInput ==
  <<"S","E","L","E","C","T"," ","1",";"," ","S","E","L","E","C","T"," ","2",
    ";">>

\* split_test.go TestNoSemicolon
TestNoSemicolonInput ==
  <<"S","E","L","E","C","T"," ","*"," ","F","R","O","M"," ","u","s","e","r",
    "s">>

\* split_test.go TestTrailingChars
TestTrailingCharsInput ==
  <<"S","E","L","E","C","T"," ","1",";"," ","-","-"," ","C","o","m","m","e",
    "n","t">>

\* split_test.go TestQuotedSemicolon
TestQuotedSemicolonInput ==
  <<"I","N","S","E","R","T"," ","I","N","T","O"," ","t","a","b","l","e"," ",
    "V","A","L","U","E","S"," ","(","'","t","e","x","t",";","h","e","r","e",
    "'",")",";">>

\* split_test.go TestBeginEndBlock
TestBeginEndBlockInput ==
  <<"B","E","G","I","N",";"," ","\n"," "," "," "," "," "," "," "," "," ",
    " "," "," "," "," ","I","N","S","E","R","T"," ","I","N","T","O"," ","l",
    "o","g","s"," ","V","A","L","U","E","S"," ","(","1",")",";"," ","\n",
    " "," "," "," "," "," "," "," "," "," "," "," "," "," ","C","O","M","M",
    "I","T",";"," ","\n"," "," "," "," "," "," "," "," "," "," "," "," ",
    " "," ","E","N","D",";">>

\* split_test.go TestFunctionWithSemicolon
TestFunctionWithSemicolonInput ==
  <<"C","R","E","A","T","E"," ","F","U","N","C","T","I","O","N"," ","u","p",
    "d","a","t","e","(",")"," ","R","E","T","U","R","N","S"," ","v","o","i",
    "d"," ","A","S"," ","$","$","\n"," "," "," "," "," "," "," "," "," ",
    " "," "," "," "," ","B","E","G","I","N","\n"," "," "," "," "," "," ",
    " "," "," "," "," "," "," "," "," "," ","U","P","D","A","T","E"," ","u",
    "s","e","r","s"," ","S","E","T"," ","u","p","d","a","t","e","d","_","a",
    "t"," ","="," ","N","O","W","(",")",";","\n"," "," "," "," "," "," ",
    " "," "," "," "," "," "," "," ","E","N","D",";","\n"," "," "," "," ",
    " "," "," "," "," "," "," "," "," "," ","$","$"," ","L","A","N","G","U",
    "A","G","E"," ","p","l","p","g","s","q","l",";">>

\* split_test.go TestCustomDelimiter
TestCustomDelimiterInput ==
  <<"D","E","L","I","M","I","T","E","R"," ","/","/","\n","C","A","L","L",
    " ","p","r","o","c","(",")","/","/","\n","D","E","L","I","M","I","T",
    "E","R"," ",";">>

\* split_test.go TestCustomDelimiter2
TestCustomDelimiter2Input ==
  <<"D","E","L","I","M","I","T","E","R"," ","/","/","\n","C","A","L","L",
    "D","E","L","I","M","I","T","E","R"," ","p","r","o","c","(",")","/","/",
    "\n","D","E","L","I","M","I","T","E","R"," ",";">>

\* split_test.go TestCustomDelimiter3
TestCustomDelimiter3Input ==
  <<"D","E","L","I","M","I","T","E","R"," ","/","/","\n","D","E","L","I",
    "M","I","T","E","R","3","3"," ","p","r","o","c","(",")","/","/","\n",
    "D","E","L","I","M","I","T","E","R"," ",";">>

\* A nested block, with keywords in three letter cases.
NestedBlockInput ==
  <<"B","e","g","i","n"," ","x",";"," ","B","E","G","I","N"," ","y",";"," ",
    "e","n","d",";"," ","z",";"," ","E","N","D",";"," ","w",";">>

\* A literal with a terminator, an escaped quote and a quote of the other kind.
QuotedLiteralInput ==
  <<"a","'",";","'","'","\"","'",";","b",";">>

\* A dollar-quoted body with a terminator, block keywords, a quote, comment
\* markers, `$$` and another tag inside.
DollarBodyInput ==
  <<"a","S"," "," ","$","t","$"," ","B","E","G","I","N",";"," ","'"," ","E",
    "N","D"," ","-","-"," ","$","$"," ","/","*"," ","$","x","$"," ","$","t",
    "$"," ","x",";"," ","y">>

DollarBodyStatement ==
  <<"a","S"," "," ","$","t","$"," ","B","E","G","I","N",";"," ","'"," ","E",
    "N","D"," ","-","-"," ","$","$"," ","/","*"," ","$","x","$"," ","$","t",
    "$"," ","x",";">>

\* A directive written in lower case.
LowerCaseDirectiveInput ==
  <<"d","e","l","i","m","i","t","e","r"," ","/","/","\n","x","/","/","\n",
    "y">>

\* split_test.go TestSplitWithStatementSplit
TestSplitWithStatementSplitInput ==
  <<"D","R","O","P"," ","F","U","N","C","T","I","O","N"," ","I","F"," ","E",
    "X","I","S","T","S"," ","X","X","X","X","1",";","\n","\n","-","-"," ",
    "+","g","o","o","s","e"," ","S","t","a","t","e","m","e","n","t","B","e",
    "g","i","n","\n","C","R","E","A","T","E"," ","O","R"," ","R","E","P",
    "L","A","C","E"," ","F","U","N","C","T","I","O","N"," ","X","X","X","X",
    "(","T","E","X","T",")","\n","R","E","T","U","R","N","S"," ","V","O",
    "I","D"," ","A","S"," ","$","f","u","n","c","t","i","o","n","$","\n",
    "B","E","G","I","N","\n","\t","X","X","X","X","\n","E","N","D",";","\n",
    "$","f","u","n","c","t","i","o","n","$"," ","l","a","n","g","u","a","g",
    "e"," ","p","l","p","g","s","q","l",";","\n","-","-"," ","+","g","o",
    "o","s","e"," ","S","t","a","t","e","m","e","n","t","E","n","d","\n",
    "\n","D","R","O","P"," ","F","U","N","C","T","I","O","N"," ","I","F",
    " ","E","X","I","S","T","S"," ","X","X","X","X","1",";","\n">>

\* split_test.go TestMultipleStatements, the comment line
commentLine ==
  <<"-","-"," ","a","b","c",";","\n">>

\* split_test.go TestMultipleStatements, the second input
TestCommentPrefixInput ==
  <<"-","-"," ","a","b","c",";","\n","-","-"," ","a","b","c",";","\n","S",
    "E","L","E","C","T"," ","1",";"," ","S","E","L","E","C","T"," ","2",";">>

\* split_test.go TestMultipleStatements, the third input
TestCommentLinesInput ==
  <<"-","-"," ","a","b","c",";","\n","-","-"," ","a","b","c",";","\n","S",
    "E","L","E","C","T"," ","1",";","\n","-","-"," ","a","b","c",";","\n",
    "S","E","L","E","C","T"," ","2",";","-","-"," ","a","b","c",";","\n">>

\* A directive after a statement and a text that no terminator ends.
DirectiveAfterTextInput ==
  <<"a",";"," ","b"," ","D","E","L","I","M","I","T","E","R"," ","/","/",
    "\n","c","/","/","\n">>

\* Raw-scan mode left by a directive that restores ';', and statements after it.
RawThenStandardInput ==
  <<"D","E","L","I","M","I","T","E","R"," ","/","/","\n","x","/","/","\n",
    "y"," ","D","E","L","I","M","I","T","E","R"," ",";","\n","z",";","b",
    "e","g","i","n",";","e","n","d",";","w">>

\* A block that holds a block comment and a line comment, each with a ';' and
\* block keywords in it.
CommentedBlockInput ==
  <<"b","e","g","i","n"," ","/","*"," ",";"," ","e","n","d"," ","*","/"," ",
    "-","-"," ","B","E","G","I","N"," ","e","n","d",";","\n","x",";"," ",
    "e","n","d",";"," ","y",";">>

\* A block that is never closed, with a statement under a custom delimiter
\* and statements under ';' after it.
OpenBlockAcrossInput ==
  <<"b","e","g","i","n"," ","a",";"," ","D","E","L","I","M","I","T","E","R",
    " ","/","/","\n","b","/","/","\n","D","E","L","I","M","I","T","E","R",
    " ",";","\n","c",";"," ","d",";">>

\* A block that is never closed, with a closed block inside.
OpenNestedInput ==
  <<"b","e","g","i","n"," ","b","e","g","i","n"," ","e","n","d",";"," ","x",
    ";"," ","y">>

\* Under "//" a word DELIMITER that a letter follows, then a directive that
\* names no delimiter, then text under the empty delimiter.
PushbackThenEmptyInput ==
  <<"D","E","L","I","M","I","T","E","R"," ","/","/","\n","D","E","L","I",
    "M","I","T","E","R","x","/","/"," ","D","E","L","I","M","I","T","E","R",
    " ","\n","a"," ","b">>

\* A function body under the tag BODY, as in split_test.go's "complex function
\* with OR REPLACE", with `$$`, `$B$` and `$BODY $` inside the body.
TaggedBodyInput ==
  <<"f","(",")"," ","A","S"," ","$","B","O","D","Y","$","\n","B","E","G",
    "I","N","\n"," ","-","-"," ","c","\n"," ","x"," ",":","="," ","'","a",
    ";","'",";"," ","$","$"," ","$","B","$"," ","$","B","O","D","Y"," ","$",
    "\n","E","N","D",";","\n","$","B","O","D","Y","$"," ","L","A","N","G",
    "U","A","G","E"," ","p",";"," ","y">>

\* The word AS before a quoted literal, before a block and before a comment.
PlainAsInput ==
  <<"a"," ","a","s"," ","'","x",";","'",";"," ","a","s"," ","b","e","g","i",
    "n"," ",";","e","n","d",";"," ","a","s"," ","-","-",";","\n","z",";",
    " ","w">>

\* Under "//": a ';', BEGIN and END, and the delimiter inside a quoted literal
\* and inside a line comment; then statements under ';' again.
RawLexicalInput ==
  <<"D","E","L","I","M","I","T","E","R"," ","/","/","\n","b","e","g","i",
    "n",";"," ","'","a","/","/","b","'"," ","-","-"," ","c","/","/","e","n",
    "d",";","/","/"," ","D","E","L","I","M","I","T","E","R"," ",";","\n",
    "q",";"," ","r">>

TestInputs ==
  {RawLexicalInput,
   PlainAsInput,
   TaggedBodyInput,
   PushbackThenEmptyInput,
   OpenBlockAcrossInput,
   OpenNestedInput,
   CommentedBlockInput,
   TestCommentPrefixInput,
   RawThenStandardInput,
   DirectiveAfterTextInput,
   TestSplitWithStatementSplitInput,
   TestCommentLinesInput,
   NestedBlockInput,
   LowerCaseDirectiveInput,
   DollarBodyInput,
   QuotedLiteralInput,
   TestMultipleStatementsInput,
   TestNoSemicolonInput,
   TestTrailingCharsInput,
   TestQuotedSemicolonInput,
   TestBeginEndBlockInput,
   TestFunctionWithSemicolonInput,
   TestCustomDelimiterInput,
   TestCustomDelimiter2Input,
   TestCustomDelimiter3Input}

\* The largest number of fragments an input is made of.
MaxFrags == 4

RECURSIVE Flatten(_)
Flatten(ss) == IF ss = <<>> THEN <<>> ELSE Head(ss) \o Flatten(Tail(ss))

\* The texts made of at most n fragments of F, after the text prefix.
TextsOf(prefix, F, n) ==
  {prefix \o Flatten(fs) : fs \in UNION {[1..k -> F] : k \in 0..n}}

\* Blocks, terminators and quotes.
FragsBlock == {Semi, <<" ">>, <<"a">>, KwBEGIN, <<"e","n","d">>, <<"'">>}
\* Quoted literals of both kinds.
FragsQuote == {<<"'">>, <<"\"">>, Semi, <<"a">>}
\* Line and block comments.
FragsComment == {<<"-","-">>, <<"\n">>, <<"/","*">>, <<"*","/">>, Semi, KwBEGIN}
\* Dollar-quoted bodies after AS.
FragsDollar == {<<"A","s"," ","$","t","$">>, <<"$","t","$">>, <<"$","$">>,
                Semi, KwBEGIN, <<"'">>, <<"-","-">>}
\* AS followed by arbitrary text.
FragsAs == {<<"a","s">>, <<" ">>, <<"$">>, <<"$","$">>, Semi, <<"t">>}
\* Text scanned under the custom delimiter "//".
FragsRaw == {<<"/","/">>, KwDELIMITER, <<" ">>, Semi, <<"x">>, <<AGrave>>}
RawPrefix == KwDELIMITER \o <<" ","/","/","\n">>
\* DELIMITER directives read by the tokenizer.
FragsDirective == {KwDELIMITER, KwBEGIN, <<" ">>, <<"/">>, Semi, <<"\n">>, <<"x">>}

Inputs ==
  TestInputs
    \cup TextsOf(<<>>, FragsBlock, MaxFrags)
    \cup TextsOf(<<>>, FragsQuote, MaxFrags + 1)
    \cup TextsOf(<<>>, FragsComment, MaxFrags)
    \cup TextsOf(<<>>, FragsDollar, MaxFrags)
    \cup TextsOf(<<>>, FragsAs, MaxFrags)
    \cup TextsOf(RawPrefix, FragsRaw, MaxFrags)
    \cup TextsOf(<<>>, FragsDirective, MaxFrags)

\* The inputs that are also read from a stream that fails.
ErrInputs ==
  {TestMultipleStatementsInput, TestCustomDelimiterInput,
   <<"a","s"," ","$","$","'","-","-","$","$",";">>,
   <<"'","a","'","'",";","-","-","\n","/","*","*","/","b","e","g","i","n">>}

(***************************************************************************)
(* Split.  The state is Split's local variables and the reader position;   *)
(* one action is one iteration of its for loop, up to and including the    *)
(* return when the iteration leaves the loop.                              *)
(***************************************************************************)
VARIABLES
  input,        \* the text of the io.Reader given to Split
  errAt,        \* the rune at which the stream fails (0: it never does)
  pos,          \* the position of the next rune the reader returns
  statements,   \* statements
  stmtBuilder,  \* stmtBuilder
  beginDepth,   \* beginDepth
  currentDelim, \* currentDelim
  token,        \* the token of the last standard-mode iteration
  raw,          \* content, nextDelim, err of the last raw-scan iteration
  pc,           \* "loop" inside the for loop, "done" after return
  ret,          \* the pair Split returned
  prevPos,      \* history: the reader position before the last iteration
  bufStart,     \* history: the position after which stmtBuilder's text began
  spans,        \* history: per statement, the input positions it was read from
  directives,   \* history: the input positions read as DELIMITER directives,
                \* and since which position the text before one was discarded
  prior         \* history: what this input was a statement of (see Resplit)

\* SplitByDelimiter: its reader, its parameter, its local variables and the
\* scanner's position, one line of the script per step.
VARIABLES
  script,            \* the text of the io.Reader given to SplitByDelimiter
  lines,             \* the lines scanner.Scan returns for it, in order
  prefix,            \* prefix
  scanned,           \* the number of lines scanner.Scan has returned
  buf,               \* buf
  isFirst,           \* isFirst
  inStatementBlock,  \* inStatementBlock
  stmtsOut,          \* stmts
  blocks,            \* blocks
  warning,           \* whether the WARNING of line 217 was logged
  scanPc,            \* "scan" inside the for loop, "done" after return
  kinds              \* history: per line scanned, the branch that handled it

\* ConvertFlywayToGoose: the package variable it reads, its local variables
\* and its position.
VARIABLES
  SqlHandleHooks,    \* SqlHandleHooks
  result,            \* result
  convIdx,           \* the index of the statement the loop of line 22 is at
  convPc,            \* "split" in the call of Split, "range" in the loop, "done"
  convRet,           \* the pair ConvertFlywayToGoose returned
  wrapped            \* history: per statement written, whether it was wrapped

\* CopyMigrateTable: its parameters, the database behind db, its local
\* variables and its position.
VARIABLES
  copyImpl,          \* which CopyMigrateTable: "latest" (copy.go) reads the
                     \* newest row, "all" (part_002) reads every row
  driver,            \* driver
  dbOpen,            \* whether db is a database (FALSE: db is nil)
  flywayTable,       \* flywayTable
  gooseTable,        \* gooseTable
  copyYear,          \* baseYear
  flywayRows,        \* the versions of the Flyway table's rows, oldest first
  gooseCreated,      \* whether the CREATE TABLE of the Goose table succeeded
  gooseRows,         \* the version_id of the rows inserted into the Goose table
  dbOps,             \* history: the calls made on db, in order
  migrations,        \* the versions read from the Flyway table
  copyIdx,           \* the index of the row the loop is at
  timestampVersion,  \* timestampVersion
  copyPc,            \* the step CopyMigrateTable is at; "done" after return,
                     \* "panic" after a call on a nil db
  copyErr            \* the error returned, by the fixed part of its message

\* parseFlywayVersion and convertToGooseTimestamp, called on a version and,
\* with the same base year, on a second one.
VARIABLES
  verStr,            \* versionStr
  verYear,           \* baseYear
  otherStr,          \* the versionStr of the second call
  parsed,            \* what parseFlywayVersion returned
  converted,         \* what convertToGooseTimestamp returned
  otherConverted,    \* what the second call of convertToGooseTimestamp returned
  verPc              \* the calls made so far

copyVars == <<copyImpl, driver, dbOpen, flywayTable, gooseTable, copyYear, flywayRows,
              gooseCreated, gooseRows, dbOps, migrations, copyIdx, timestampVersion,
              copyPc, copyErr>>

versionVars == <<verStr, verYear, otherStr, parsed, converted, otherConverted, verPc>>

convVars == <<SqlHandleHooks, result, convIdx, convPc, convRet, wrapped>>

delimVars == <<script, lines, prefix, scanned, buf, isFirst, inStatementBlock, stmtsOut,
               blocks, warning, scanPc, kinds>>

splitVars == <<input, errAt, pos, statements, stmtBuilder, beginDepth,
               currentDelim, token, raw, pc, ret, prevPos, bufStart, spans,
               directives, prior>>

vars == <<splitVars, delimVars, convVars, copyVars, versionVars>>

src == [text |-> input, errAt |-> errAt]

NoToken == Tok("none", <<>>, <<>>, 0, "nil")
NoRaw == RawResult(<<>>, <<>>, 0, "nil", "none")
NoRet == [statements |-> <<>>, err |-> "none"]
NoPrior == [resplit |-> FALSE, directive |-> FALSE]

\* SplitByDelimiter is not called.
NoSplitByDelimiter ==
  /\ script = <<>>
  /\ lines = <<>>
  /\ prefix = <<>>
  /\ scanned = 0
  /\ buf = <<>>
  /\ isFirst = TRUE
  /\ inStatementBlock = FALSE
  /\ stmtsOut = <<>>
  /\ blocks = <<>>
  /\ warning = FALSE
  /\ scanPc = "idle"
  /\ kinds = <<>>

NoConvRet == [out |-> <<>>, err |-> "none"]

\* ConvertFlywayToGoose is not called.
NoConvert ==
  /\ SqlHandleHooks = <<>>
  /\ result = <<>>
  /\ convIdx = 0
  /\ convPc = "idle"
  /\ convRet = NoConvRet
  /\ wrapped = <<>>

NoVersionResult == [out |-> <<>>, err |-> FALSE]
NoParsed == [major |-> 0, minor |-> 0, patch |-> 0, err |-> FALSE]

\* CopyMigrateTable is not called.
NoCopy ==
  /\ copyImpl = "latest"
  /\ driver = <<>>
  /\ dbOpen = FALSE
  /\ flywayTable = <<>>
  /\ gooseTable = <<>>
  /\ copyYear = <<>>
  /\ flywayRows = <<>>
  /\ gooseCreated = FALSE
  /\ gooseRows = <<>>
  /\ dbOps = <<>>
  /\ migrations = <<>>
  /\ copyIdx = 0
  /\ timestampVersion = <<>>
  /\ copyPc = "idle"
  /\ copyErr = "none"

\* parseFlywayVersion and convertToGooseTimestamp are not called.
NoVersion ==
  /\ verStr = <<>>
  /\ verYear = <<>>
  /\ otherStr = <<>>
  /\ parsed = NoParsed
  /\ converted = NoVersionResult
  /\ otherConverted = NoVersionResult
  /\ verPc = "idle"

Init ==
  /\ NoSplitByDelimiter
  /\ NoConvert
  /\ NoCopy
  /\ NoVersion
  /\ input \in Inputs
  /\ errAt \in IF input \in ErrInputs THEN 0..(Len(input) + 1) ELSE {0}
  /\ prior = NoPrior
  /\ pos = 1
  /\ statements = <<>>
  /\ stmtBuilder = <<>>
  /\ beginDepth = 0
  /\ currentDelim = Semi
  /\ token = NoToken
  /\ raw = NoRaw
  /\ pc = "loop"
  /\ ret = NoRet
  /\ prevPos = 1
  /\ bufStart = 0
  /\ spans = <<>>
  /\ directives = <<>>

\* The input positions of a text of length n that begins after bufStart.
SpanOf(n) == [from |-> bufStart + 1, to |-> bufStart + n]

\* Faulty variant of appendStatement: a statement equal to an earlier one is not
\* added again.
appendStatementOnce(stmts, s) ==
  IF \E i \in 1..Len(stmts) : stmts[i] = s THEN stmts ELSE Append(stmts, s)

\* statements = append(statements, ...), lines 492, 503, 528 and 558.
appendStatement(stmts, s) == Append(stmts, s)

\* Faulty variant of FinalStatements: the text after the last terminator is not
\* flushed.
FinalStatementsNoFlush(stmts, builder) == stmts

\* Lines 556-561: the statements returned after the loop is left by break.
FinalStatements(stmts, builder) ==
  IF Len(builder) > 0 THEN appendStatement(stmts, builder) ELSE stmts

Return(stmts, err) ==
  /\ pc' = "done"
  /\ ret' = [statements |-> stmts, err |-> err]

InStandardMode == pc = "loop" /\ currentDelim = Semi
InRawMode == pc = "loop" /\ currentDelim # Semi

\* Faulty variant of rawEmits: the text is not trimmed before the test.
rawEmitsUntrimmed(s) == s # <<>>

\* Lines 502-504: whether the raw-scan text is appended to the statements.
rawEmits(s) == TrimSpace(s) # <<>>

\* Faulty variant of rawFinal: the text read before the end of the stream is
\* not written to the buffer.
rawFinalWithoutContent(builder, content) == builder

\* Lines 488-490: the buffer after a raw scan that met the end of the stream.
rawFinal(builder, content) == IF content # <<>> THEN builder \o content ELSE builder

\* Raw-scan mode, end of stream (lines 485-496, 556-561).
RawEOF ==
  /\ UNCHANGED <<delimVars, convVars, copyVars, versionVars>>
  /\ InRawMode
  /\ LET r == readUntilDelimiter(src, pos, currentDelim)
         sb == rawFinal(stmtBuilder, r.content)
         flushed == Len(sb) > 0
         stmts == IF flushed THEN appendStatement(statements, sb) ELSE statements
         sb2 == IF flushed THEN <<>> ELSE sb
     IN
     /\ r.err = "EOF"
     /\ raw' = r
     /\ pos' = r.pos
     /\ stmtBuilder' = sb2
     /\ statements' = FinalStatements(stmts, sb2)
     /\ spans' = IF flushed THEN Append(spans, SpanOf(Len(sb))) ELSE spans
     /\ bufStart' = IF flushed THEN r.pos - 1 ELSE bufStart
     /\ Return(FinalStatements(stmts, sb2), "nil")
  /\ prevPos' = pos
  /\ UNCHANGED <<input, errAt, beginDepth, currentDelim, token, directives, prior>>

\* Faulty variant of errorResult: the statements completed before the error are
\* returned with it.
errorResultPartial(stmts) == stmts

\* Lines 497 and 517: the statement list returned with a stream error, nil.
errorResult(stmts) == <<>>

\* Raw-scan mode, stream error (line 497).
RawError ==
  /\ UNCHANGED <<delimVars, convVars, copyVars, versionVars>>
  /\ InRawMode
  /\ LET r == readUntilDelimiter(src, pos, currentDelim) IN
     /\ r.err = "ERR"
     /\ raw' = r
     /\ pos' = r.pos
     /\ Return(errorResult(statements), "ERR")
  /\ prevPos' = pos
  /\ UNCHANGED <<input, errAt, statements, stmtBuilder, beginDepth, currentDelim,
                 token, bufStart, spans, directives, prior>>

\* Raw-scan mode, the delimiter or a directive was found (lines 500-508).
RawStatement ==
  /\ UNCHANGED <<delimVars, convVars, copyVars, versionVars>>
  /\ InRawMode
  /\ LET r == readUntilDelimiter(src, pos, currentDelim)
         sb == stmtBuilder \o r.content
     IN
     /\ r.err = "nil"
     /\ raw' = r
     /\ pos' = r.pos
     /\ statements' = IF rawEmits(sb) THEN appendStatement(statements, sb) ELSE statements
     /\ spans' = IF rawEmits(sb) THEN Append(spans, SpanOf(Len(sb))) ELSE spans
     /\ stmtBuilder' = <<>>
     /\ currentDelim' = r.nextDelim
     /\ bufStart' = r.pos - 1
     /\ directives' = IF r.via = "directive"
                        THEN Append(directives,
                                    [from |-> pos + Len(r.content), to |-> r.pos - 1,
                                     since |-> pos + Len(r.content)])
                        ELSE directives
  /\ prevPos' = pos
  /\ UNCHANGED <<input, errAt, beginDepth, token, pc, ret, prior>>

\* Standard mode, end of stream (lines 512-516, 556-561).
StdEOF ==
  /\ UNCHANGED <<delimVars, convVars, copyVars, versionVars>>
  /\ InStandardMode
  /\ LET tok == NextToken(src, pos) IN
     /\ tok.err = "EOF"
     /\ token' = tok
     /\ pos' = tok.pos
     /\ statements' = FinalStatements(statements, stmtBuilder)
     /\ spans' = IF Len(stmtBuilder) > 0 THEN Append(spans, SpanOf(Len(stmtBuilder)))
                 ELSE spans
     /\ Return(FinalStatements(statements, stmtBuilder), "nil")
  /\ prevPos' = pos
  /\ UNCHANGED <<input, errAt, stmtBuilder, beginDepth, currentDelim, raw,
                 bufStart, directives, prior>>

\* Standard mode, stream error (line 517).
StdError ==
  /\ UNCHANGED <<delimVars, convVars, copyVars, versionVars>>
  /\ InStandardMode
  /\ LET tok == NextToken(src, pos) IN
     /\ tok.err = "ERR"
     /\ token' = tok
     /\ pos' = tok.pos
     /\ Return(errorResult(statements), "ERR")
  /\ prevPos' = pos
  /\ UNCHANGED <<input, errAt, statements, stmtBuilder, beginDepth, currentDelim,
                 raw, bufStart, spans, directives, prior>>

\* Faulty variant of semicolonEnds: the depth is not looked at.
semicolonEndsAtAnyDepth(depth) == TRUE

\* Faulty variant of semicolonEnds: off by one, a ';' directly inside the outermost
\* block ends the statement.
semicolonEndsBelowTwo(depth) == depth <= 1

\* Line 522: whether a TokenSemicolon read at this depth ends the statement.
semicolonEnds(depth) == depth = 0

\* Faulty variant of terminated: the ';' is not written to the statement.
terminatedWithoutSemicolon(builder, value) == builder

\* Line 524: the text of the statement that a TokenSemicolon ends.
terminated(builder, value) == builder \o value

\* case TokenSemicolon (lines 521-534).
HandleSemicolon ==
  /\ UNCHANGED <<delimVars, convVars, copyVars, versionVars>>
  /\ InStandardMode
  /\ LET tok == NextToken(src, pos)
         sb == stmtBuilder \o tok.Value
     IN
     /\ tok.err = "nil" /\ tok.Type = "TokenSemicolon"
     /\ token' = tok
     /\ pos' = tok.pos
     /\ IF semicolonEnds(beginDepth)
          THEN LET st == terminated(stmtBuilder, tok.Value) IN
               /\ statements' = IF Len(st) > 0 THEN appendStatement(statements, st)
                                ELSE statements
               /\ spans' = IF Len(st) > 0 THEN Append(spans, SpanOf(Len(st)))
                           ELSE spans
               /\ stmtBuilder' = IF Len(st) > 0 THEN <<>> ELSE st
               /\ bufStart' = tok.pos - 1
          ELSE /\ stmtBuilder' = sb
               /\ UNCHANGED <<statements, spans, bufStart>>
  /\ prevPos' = pos
  /\ UNCHANGED <<input, errAt, beginDepth, currentDelim, raw, pc, ret,
                 directives, prior>>

\* Line 537: the depth after a TokenBegin.
depthAfterBegin(depth) == depth + 1

\* case TokenBegin (lines 536-538).
HandleBegin ==
  /\ UNCHANGED <<delimVars, convVars, copyVars, versionVars>>
  /\ InStandardMode
  /\ LET tok == NextToken(src, pos) IN
     /\ tok.err = "nil" /\ tok.Type = "TokenBegin"
     /\ token' = tok
     /\ pos' = tok.pos
     /\ beginDepth' = depthAfterBegin(beginDepth)
     /\ stmtBuilder' = stmtBuilder \o tok.Value
  /\ prevPos' = pos
  /\ UNCHANGED <<input, errAt, statements, currentDelim, raw, pc, ret, bufStart,
                 spans, directives, prior>>

\* Faulty variant of depthAfterEnd: the depth is not clamped at 0.
depthAfterEndUnclamped(depth) == depth - 1

\* Lines 541-543: the depth after a TokenEnd.
depthAfterEnd(depth) == IF depth > 0 THEN depth - 1 ELSE depth

\* case TokenEnd (lines 540-544).
HandleEnd ==
  /\ UNCHANGED <<delimVars, convVars, copyVars, versionVars>>
  /\ InStandardMode
  /\ LET tok == NextToken(src, pos) IN
     /\ tok.err = "nil" /\ tok.Type = "TokenEnd"
     /\ token' = tok
     /\ pos' = tok.pos
     /\ beginDepth' = depthAfterEnd(beginDepth)
     /\ stmtBuilder' = stmtBuilder \o tok.Value
  /\ prevPos' = pos
  /\ UNCHANGED <<input, errAt, statements, currentDelim, raw, pc, ret, bufStart,
                 spans, directives, prior>>

\* Faulty variant of directiveBuffer: the directive's text is written to the
\* buffer after the reset.
directiveBufferWithCommand(builder, value) == value

\* Lines 548-549: the buffer after a TokenDelimiterCommand.
directiveBuffer(builder, value) == <<>>

\* case TokenDelimiterCommand (lines 546-549).
HandleDelimiterCommand ==
  /\ UNCHANGED <<delimVars, convVars, copyVars, versionVars>>
  /\ InStandardMode
  /\ LET tok == NextToken(src, pos) IN
     /\ tok.err = "nil" /\ tok.Type = "TokenDelimiterCommand"
     /\ token' = tok
     /\ pos' = tok.pos
     /\ currentDelim' = tok.DelimiterWord
     /\ stmtBuilder' = directiveBuffer(stmtBuilder, tok.Value)
     /\ bufStart' = tok.pos - 1
     /\ directives' = Append(directives, [from |-> pos, to |-> tok.pos - 1,
                                          since |-> bufStart + 1])
  /\ prevPos' = pos
  /\ UNCHANGED <<input, errAt, statements, beginDepth, raw, pc, ret, spans, prior>>

\* case TokenText (lines 551-552).
HandleText ==
  /\ UNCHANGED <<delimVars, convVars, copyVars, versionVars>>
  /\ InStandardMode
  /\ LET tok == NextToken(src, pos) IN
     /\ tok.err = "nil" /\ tok.Type = "TokenText"
     /\ token' = tok
     /\ pos' = tok.pos
     /\ stmtBuilder' = stmtBuilder \o tok.Value
  /\ prevPos' = pos
  /\ UNCHANGED <<input, errAt, statements, beginDepth, currentDelim, raw, pc, ret,
                 bufStart, spans, directives, prior>>

\* A caller gives one of the statements Split returned to Split again, as
\* an input of its own: a new call, starting from Split's initial state.
Resplit ==
  /\ UNCHANGED <<delimVars, convVars, copyVars, versionVars>>
  /\ pc = "done" /\ ret.err = "nil" /\ ~prior.resplit
  /\ \E i \in 1..Len(ret.statements) :
       /\ input' = ret.statements[i]
       /\ errAt' = 0
       /\ prior' = [resplit |-> TRUE, directive |-> directives # <<>>]
  /\ pos' = 1
  /\ statements' = <<>>
  /\ stmtBuilder' = <<>>
  /\ beginDepth' = 0
  /\ currentDelim' = Semi
  /\ token' = NoToken
  /\ raw' = NoRaw
  /\ pc' = "loop"
  /\ ret' = NoRet
  /\ prevPos' = 1
  /\ bufStart' = 0
  /\ spans' = <<>>
  /\ directives' = <<>>

Next ==
  \/ RawEOF
  \/ RawError
  \/ RawStatement
  \/ StdEOF
  \/ StdError
  \/ HandleSemicolon
  \/ HandleBegin
  \/ HandleEnd
  \/ HandleDelimiterCommand
  \/ HandleText
  \/ Resplit

Spec == Init /\ [][Next]_vars

(***************************************************************************)
(* SplitByDelimiter.  The scanner gives the script line by line; one       *)
(* action is one iteration of the for loop over scanner.Scan, by the       *)
(* branch that handles the line, and one is the code after the loop.       *)
(***************************************************************************)
\* The last carriage return of a line is dropped (bufio.ScanLines).
dropCR(data) ==
  IF data # <<>> /\ data[Len(data)] = "\r" THEN SubSeq(data, 1, Len(data) - 1)
  ELSE data

RECURSIVE ScanLinesLoop(_, _, _)
ScanLinesLoop(rest, cur, acc) ==
  IF rest = <<>> THEN (IF cur # <<>> THEN Append(acc, dropCR(cur)) ELSE acc)
  ELSE IF Head(rest) = "\n" THEN ScanLinesLoop(Tail(rest), <<>>, Append(acc, dropCR(cur)))
  ELSE ScanLinesLoop(Tail(rest), Append(cur, Head(rest)), acc)

\* The lines scanner.Scan returns for a text, in order (bufio.ScanLines): a
\* line ends at its newline, the last one at the end of the text.
ScanLines(rest) == ScanLinesLoop(rest, <<>>, <<>>)

RECURSIVE FieldsLoop(_, _, _)
FieldsLoop(rest, cur, acc) ==
  IF rest = <<>> THEN (IF cur # <<>> THEN Append(acc, cur) ELSE acc)
  ELSE IF IsSpace(Head(rest))
    THEN FieldsLoop(Tail(rest), <<>>, IF cur # <<>> THEN Append(acc, cur) ELSE acc)
  ELSE FieldsLoop(Tail(rest), Append(cur, Head(rest)), acc)

\* strings.Fields
Fields(s) == FieldsLoop(s, <<>>, <<>>)

CmdStatementBegin ==
  {<<"S","t","a","t","e","m","e","n","t","B","e","g","i","n">>,
   <<"s","t","a","t","e","m","e","n","t","B","e","g","i","n">>}
CmdStatementEnd ==
  {<<"S","t","a","t","e","m","e","n","t","E","n","d">>,
   <<"s","t","a","t","e","m","e","n","t","E","n","d">>}

\* Faulty variant of markerCmd: under a non-empty prefix only the three-word form
\* has a command.
markerCmdThreeWords(text, pfx) ==
  LET line == TrimSpace(text) IN
  IF ~HasPrefix(line, <<"-", "-">>) THEN <<>>
  ELSE LET ss == Fields(line) IN
    IF pfx = <<>>
      THEN (IF Len(ss) = 2 THEN TrimPrefix(ss[2], <<"+">>) ELSE <<>>)
    ELSE IF Len(ss) = 3 /\ (ss[2] = pfx \/ ss[2] = <<"+">> \o pfx) THEN ss[3]
    ELSE <<>>

\* Lines 142-158: the command of a line under a prefix, <<>> when the line has
\* none.  ss[2] and ss[3] are Go's ss[1] and ss[2].
markerCmd(text, pfx) ==
  LET line == TrimSpace(text) IN
  IF ~HasPrefix(line, <<"-", "-">>) THEN <<>>
  ELSE LET ss == Fields(line) IN
    IF pfx = <<>>
      THEN (IF Len(ss) = 2 THEN TrimPrefix(ss[2], <<"+">>) ELSE <<>>)
    ELSE IF Len(ss) = 3 /\ (ss[2] = pfx \/ ss[2] = <<"+">> \o pfx) THEN ss[3]
    ELSE IF Len(ss) = 2 THEN TrimPrefix(ss[2], <<"+">>)
    ELSE <<>>

\* The begin marker in the three-word form, prefix goose.
LineGooseBegin ==
  <<"-","-"," ","+","g","o","o","s","e"," ","S","t","a","t","e","m","e","n",
    "t","B","e","g","i","n">>

\* The end marker in the three-word form, prefix goose.
LineGooseEnd ==
  <<"-","-"," ","+","g","o","o","s","e"," ","S","t","a","t","e","m","e","n",
    "t","E","n","d">>

\* The begin marker in the two-word short form.
LineShortBegin ==
  <<"-","-"," ","+","S","t","a","t","e","m","e","n","t","B","e","g","i","n">>

\* The end marker in the two-word short form.
LineShortEnd ==
  <<"-","-"," ","+","S","t","a","t","e","m","e","n","t","E","n","d">>

\* A three-word comment line with another prefix.
LineOtherBegin ==
  <<"-","-"," ","+","o","t","h","e","r"," ","S","t","a","t","e","m","e","n",
    "t","B","e","g","i","n">>

\* An end marker with surrounding whitespace, no '+', a lower-case command
\* and a carriage return before its newline.
LinePaddedEnd ==
  <<" ","-","-"," ","g","o","o","s","e"," ","s","t","a","t","e","m","e","n",
    "t","E","n","d","\r">>

\* A line of SQL.
LineSql ==
  <<"x",";">>

\* A whitespace-only line.
LineBlank ==
  <<" ">>

\* The prefix splitByDelimiter passes (line 127).
PrefixGoose ==
  <<"g","o","o","s","e">>

ScriptLines ==
  {LineGooseBegin, LineGooseEnd, LineShortBegin, LineShortEnd, LineOtherBegin,
   LinePaddedEnd, LineSql, LineBlank}

Prefixes == {<<>>, PrefixGoose}

MaxLines == 3

RECURSIVE JoinLines(_)
\* The lines of a list, a newline between each two.
JoinLines(ls) ==
  IF ls = <<>> THEN <<>>
  ELSE IF Len(ls) = 1 THEN ls[1]
  ELSE ls[1] \o <<"\n">> \o JoinLines(Tail(ls))

\* The scripts of at most MaxLines lines, the last line with or without its
\* newline.
Scripts ==
  {JoinLines(ls) \o end :
     ls \in UNION {[1..k -> ScriptLines] : k \in 0..MaxLines},
     end \in {<<>>, <<"\n">>}}

\* Split is not called.
NoSplit ==
  /\ input = <<>>
  /\ errAt = 0
  /\ prior = NoPrior
  /\ pos = 1
  /\ statements = <<>>
  /\ stmtBuilder = <<>>
  /\ beginDepth = 0
  /\ currentDelim = Semi
  /\ token = NoToken
  /\ raw = NoRaw
  /\ pc = "idle"
  /\ ret = NoRet
  /\ prevPos = 1
  /\ bufStart = 0
  /\ spans = <<>>
  /\ directives = <<>>

\* Lines 131-137.
InitByDelimiter ==
  /\ NoSplit
  /\ NoConvert
  /\ NoCopy
  /\ NoVersion
  /\ script \in Scripts
  /\ lines = ScanLines(script)
  /\ prefix \in Prefixes
  /\ scanned = 0
  /\ buf = <<>>
  /\ isFirst = TRUE
  /\ inStatementBlock = FALSE
  /\ stmtsOut = <<>>
  /\ blocks = <<>>
  /\ warning = FALSE
  /\ scanPc = "scan"
  /\ kinds = <<>>

\* scanner.Scan returned a line: its text and its command.
Scanning == scanPc = "scan" /\ scanned < Len(lines)
scanText == lines[scanned + 1]
scanCmd == markerCmd(scanText, prefix)

\* Lines 162-163: whether a begin marker flushes the accumulated segment.
beginFlushes(segment) == TrimSpace(segment) # <<>>

\* Lines 161-174: a begin marker line.
ScanStatementBegin ==
  /\ UNCHANGED <<splitVars, convVars, copyVars, versionVars>>
  /\ Scanning
  /\ scanCmd \in CmdStatementBegin
  /\ stmtsOut' = IF beginFlushes(buf) THEN Append(stmtsOut, buf) ELSE stmtsOut
  /\ blocks' = IF beginFlushes(buf) THEN Append(blocks, FALSE) ELSE blocks
  /\ buf' = scanText
  /\ isFirst' = FALSE
  /\ inStatementBlock' = TRUE
  /\ scanned' = scanned + 1
  /\ kinds' = Append(kinds, "begin")
  /\ UNCHANGED <<script, lines, prefix, warning, scanPc>>

\* Faulty variant of endSegment: the end marker line is joined to the segment
\* without a newline.
endSegmentNoNewline(segment, first, text) == segment \o text

\* Lines 176-180: the segment an end marker line completes.
endSegment(segment, first, text) ==
  (IF ~first THEN segment \o <<"\n">> ELSE segment) \o text

\* Faulty variant of endFlag: the element is flagged as not atomic.
endFlagNotAtomic == FALSE

\* Line 183: the flag of the element an end marker line completes.
endFlag == TRUE

\* Lines 175-189: an end marker line.
ScanStatementEnd ==
  /\ UNCHANGED <<splitVars, convVars, copyVars, versionVars>>
  /\ Scanning
  /\ scanCmd \notin CmdStatementBegin
  /\ scanCmd \in CmdStatementEnd
  /\ stmtsOut' = Append(stmtsOut, endSegment(buf, isFirst, scanText))
  /\ blocks' = Append(blocks, endFlag)
  /\ buf' = <<>>
  /\ isFirst' = TRUE
  /\ inStatementBlock' = FALSE
  /\ scanned' = scanned + 1
  /\ kinds' = Append(kinds, "end")
  /\ UNCHANGED <<script, lines, prefix, warning, scanPc>>

\* Lines 192-200: any other line.
ScanLine ==
  /\ UNCHANGED <<splitVars, convVars, copyVars, versionVars>>
  /\ Scanning
  /\ scanCmd \notin CmdStatementBegin \cup CmdStatementEnd
  /\ buf' = (IF isFirst THEN buf ELSE buf \o <<"\n">>) \o scanText
  /\ isFirst' = FALSE
  /\ scanned' = scanned + 1
  /\ kinds' = Append(kinds, "text")
  /\ UNCHANGED <<script, lines, prefix, inStatementBlock, stmtsOut, blocks, warning, scanPc>>

\* Faulty variant of finalFlushes: the segment is not trimmed before the test.
finalFlushesUntrimmed(segment) == Len(segment) > 0

\* Lines 207-213: whether the segment left at the end of the script is returned.
finalFlushes(segment) == Len(segment) > 0 /\ TrimSpace(segment) # <<>>

\* Lines 203-220: the scanner is at the end of the script.
ScanEnd ==
  /\ UNCHANGED <<splitVars, convVars, copyVars, versionVars>>
  /\ scanPc = "scan" /\ scanned = Len(lines)
  /\ stmtsOut' = IF finalFlushes(buf) THEN Append(stmtsOut, buf) ELSE stmtsOut
  /\ blocks' = IF finalFlushes(buf) THEN Append(blocks, FALSE) ELSE blocks
  /\ warning' = inStatementBlock
  /\ scanPc' = "done"
  /\ UNCHANGED <<script, lines, prefix, scanned, buf, isFirst, inStatementBlock, kinds>>

NextByDelimiter ==
  \/ ScanStatementBegin
  \/ ScanStatementEnd
  \/ ScanLine
  \/ ScanEnd

SpecByDelimiter == InitByDelimiter /\ [][NextByDelimiter]_vars

(***************************************************************************)
(* ConvertFlywayToGoose.  It calls Split on its reader (the Split actions  *)
(* above, from Split's initial state), then writes the Up line, one piece  *)
(* of output per statement and the Down section: one action is the code    *)
(* after Split returned, one is an iteration of the loop over the          *)
(* statements, one is the code after the loop.                             *)
(***************************************************************************)
\* strings.IndexRune, counted from 1: 0 when the rune does not occur.
IndexRune(s, r) ==
  IF \E i \in 1..Len(s) : s[i] = r
    THEN CHOOSE i \in 1..Len(s) : s[i] = r /\ \A j \in 1..(i - 1) : s[j] # r
    ELSE 0

\* strings.Contains, for a non-empty substr.
Contains(s, substr) ==
  \E i \in 1..(Len(s) - Len(substr) + 1) : SubSeq(s, i, i + Len(substr) - 1) = substr

RECURSIVE TrimRightFunc(_, _)
\* strings.TrimRightFunc, the function given as the set of runes it accepts.
TrimRightFunc(s, cut) ==
  IF s # <<>> /\ s[Len(s)] \in cut THEN TrimRightFunc(SubSeq(s, 1, Len(s) - 1), cut)
  ELSE s

\* The runes the function literal of hasInternalSemicolon accepts (line 90).
TrailingRunes == {" ", "\t", "\n", "\r", ";"}

\* hasInternalSemicolon
hasInternalSemicolon(stmt) == Contains(TrimRightFunc(stmt, TrailingRunes), Semi)

\* Faulty variant of hasSemicolonAtEnt: the statement is not trimmed before the
\* test.
hasSemicolonAtEntUntrimmed(stmt) == HasSuffix(stmt, Semi)

\* hasSemicolonAtEnt
hasSemicolonAtEnt(stmt) ==
  LET trimmed == TrimRight(stmt) IN
  IF trimmed = <<>> THEN TRUE ELSE HasSuffix(trimmed, Semi)

\* The text written first (line 20).
UpLine ==
  <<"-","-"," ","+","g","o","o","s","e"," ","U","p","\n">>

\* The text written before a wrapped statement (line 59).
WrapBegin ==
  <<"\n","-","-"," ","+","g","o","o","s","e"," ","S","t","a","t","e","m",
    "e","n","t","B","e","g","i","n","\n">>

\* The text written after a wrapped statement (line 67).
WrapEnd ==
  <<"\n","-","-"," ","+","g","o","o","s","e"," ","S","t","a","t","e","m",
    "e","n","t","E","n","d">>

\* The text whose presence in a statement prevents wrapping (line 52).
MarkerStatementBegin ==
  <<"-","-"," ","+","g","o","o","s","e"," ","S","t","a","t","e","m","e","n",
    "t","B","e","g","i","n">>

\* The text written last (lines 80-82).
DownSection ==
  <<"\n","-","-"," ","+","g","o","o","s","e"," ","D","o","w","n","\n","-",
    "-"," ","D","o","w","n"," ","m","i","g","r","a","t","i","o","n"," ","i",
    "s"," ","n","o","t"," ","s","u","p","p","o","r","t","e","d"," ","i","n",
    " ","a","u","t","o","m","a","t","i","c"," ","c","o","n","v","e","r","s",
    "i","o","n","\n">>

RECURSIVE skipBlankLines(_, _)
\* Lines 26-38: the leading lines of the statement that are blank are written
\* to the output and cut from the statement.
skipBlankLines(trimmedStmt, written) ==
  LET idx == IndexRune(trimmedStmt, "\n") IN
  IF idx = 0 THEN [written |-> written, rest |-> trimmedStmt]
  ELSE LET line == SubSeq(trimmedStmt, 1, idx) IN
    IF TrimSpace(line) # <<>> THEN [written |-> written, rest |-> trimmedStmt]
    ELSE skipBlankLines(SubSeq(trimmedStmt, idx + 1, Len(trimmedStmt)), written \o line)

\* One hook of SqlHandleHooks applied to a statement: "upper" is a hook that
\* returns strings.ToUpper of it, "fail" one that returns an error.
applyHook(hook, s) ==
  IF hook = "upper" THEN [val |-> ToUpper(s), err |-> "nil"]
  ELSE [val |-> <<>>, err |-> "ERR"]

RECURSIVE runHooks(_, _)
\* Lines 43-48: the hooks in order, up to the first that fails.
runHooks(hs, s) ==
  IF hs = <<>> THEN [val |-> s, err |-> "nil"]
  ELSE LET r == applyHook(Head(hs), s) IN
    IF r.err # "nil" THEN r ELSE runHooks(Tail(hs), r.val)

\* Faulty variant of wraps: a statement that already holds the marker is wrapped
\* again.
wrapsIgnoringMarker(internal, trimmedStmt) == internal

\* Lines 52-58: whether the statement is written between the two marker lines.
wraps(internal, trimmedStmt) ==
  IF Contains(trimmedStmt, MarkerStatementBegin) THEN FALSE ELSE internal

\* Lines 58-70: the text written for a statement.
writeStatement(trimmedStmt, wrap) ==
  (IF wrap THEN WrapBegin ELSE <<>>) \o trimmedStmt
    \o (IF wrap THEN WrapEnd ELSE <<>>) \o <<"\n">>

\* split_test.go TestConvertFlywayToGoose, "simple function"
SimpleFunctionInput ==
  <<"C","R","E","A","T","E"," ","F","U","N","C","T","I","O","N"," ","t","e",
    "s","t","(",")"," ","R","E","T","U","R","N","S"," ","v","o","i","d"," ",
    "A","S"," ","$","$","\n","B","E","G","I","N","\n","E","N","D",";","\n",
    "$","$"," ","L","A","N","G","U","A","G","E"," ","p","l","p","g","s","q",
    "l",";">>

\* split_test.go TestConvertFlywayToGoose, "multiple functions"
MultipleFunctionsInput ==
  <<"C","R","E","A","T","E"," ","F","U","N","C","T","I","O","N"," ","f","u",
    "n","c","1","(",")"," ","R","E","T","U","R","N","S"," ","v","o","i","d",
    " ","A","S"," ","$","$","\n","B","E","G","I","N","\n","E","N","D",";",
    "\n","$","$"," ","L","A","N","G","U","A","G","E"," ","p","l","p","g",
    "s","q","l",";","\n","\n","C","R","E","A","T","E"," ","O","R"," ","R",
    "E","P","L","A","C","E"," ","F","U","N","C","T","I","O","N"," ","f","u",
    "n","c","2","(",")"," ","R","E","T","U","R","N","S"," ","i","n","t"," ",
    "A","S"," ","$","$","\n","B","E","G","I","N","\n"," "," "," "," ","R",
    "E","T","U","R","N"," ","1",";","\n","E","N","D",";","\n","$","$"," ",
    "L","A","N","G","U","A","G","E"," ","p","l","p","g","s","q","l",";">>

\* split_test.go TestConvertFlywayToGoose, "non-function SQL"
NonFunctionInput ==
  <<"C","R","E","A","T","E"," ","T","A","B","L","E"," ","u","s","e","r","s",
    " ","(","\n"," "," "," "," ","i","d"," ","S","E","R","I","A","L"," ",
    "P","R","I","M","A","R","Y"," ","K","E","Y",",","\n"," "," "," "," ",
    "n","a","m","e"," ","T","E","X","T"," ","N","O","T"," ","N","U","L","L",
    "\n",")",";","\n","\n","I","N","S","E","R","T"," ","I","N","T","O"," ",
    "u","s","e","r","s"," ","(","n","a","m","e",")"," ","V","A","L","U","E",
    "S"," ","(","'","t","e","s","t","'",")",";">>

\* split_test.go TestConvertFlywayToGoose_EdgeCases, "function without semicolon"
FunctionWithoutSemicolonInput ==
  <<"C","R","E","A","T","E"," ","F","U","N","C","T","I","O","N"," ","t","e",
    "s","t","(",")"," ","R","E","T","U","R","N","S"," ","v","o","i","d"," ",
    "A","S"," ","$","$","\n","B","E","G","I","N","\n","E","N","D","\n","$",
    "$"," ","L","A","N","G","U","A","G","E"," ","p","l","p","g","s","q","l">>

\* A block left open whose last ';' is followed by a form feed.
OpenBlockFormFeedInput ==
  <<"b","e","g","i","n"," ",";","\f">>

\* A block with an internal ';'.
FragBlock ==
  <<"b","e","g","i","n",";","e","n","d">>

\* A comment line that holds the marker.
MarkerLine == MarkerStatementBegin \o <<"\n">>

FragsConvert == {Semi, <<"a">>, <<"\n">>, <<" ">>, FragBlock, MarkerLine}

\* The largest number of fragments an input of the converter is made of.
MaxStmtFrags == 4

ConvertInputs ==
  {SimpleFunctionInput, MultipleFunctionsInput, NonFunctionInput,
   FunctionWithoutSemicolonInput, OpenBlockFormFeedInput,
   TestMultipleStatementsInput, TestCustomDelimiterInput,
   LowerCaseDirectiveInput, NestedBlockInput}
    \cup TextsOf(<<>>, FragsConvert, MaxStmtFrags)

\* The values of SqlHandleHooks, and the inputs converted under each of them.
HookLists == {<<>>, <<"upper">>, <<"fail">>, <<"upper", "fail">>}
HookInputs == {SimpleFunctionInput} \cup TextsOf(<<>>, FragsConvert, 2)

\* Lines 12-14: ConvertFlywayToGoose is called and calls Split.
InitConvert ==
  /\ NoSplitByDelimiter
  /\ NoCopy
  /\ NoVersion
  /\ input \in ConvertInputs
  /\ errAt \in IF input \in ErrInputs THEN 0..(Len(input) + 1) ELSE {0}
  /\ prior = NoPrior
  /\ pos = 1
  /\ statements = <<>>
  /\ stmtBuilder = <<>>
  /\ beginDepth = 0
  /\ currentDelim = Semi
  /\ token = NoToken
  /\ raw = NoRaw
  /\ pc = "loop"
  /\ ret = NoRet
  /\ prevPos = 1
  /\ bufStart = 0
  /\ spans = <<>>
  /\ directives = <<>>
  /\ SqlHandleHooks \in IF input \in HookInputs THEN HookLists ELSE {<<>>}
  /\ result = <<>>
  /\ convIdx = 0
  /\ convPc = "split"
  /\ convRet = NoConvRet
  /\ wrapped = <<>>

ConvReturn(text, err) ==
  /\ convPc' = "done"
  /\ convRet' = [out |-> text, err |-> err]

\* Lines 15-17: Split returned an error.
ConvertSplitError ==
  /\ UNCHANGED <<splitVars, delimVars, copyVars, versionVars>>
  /\ convPc = "split" /\ pc = "done" /\ ret.err = "ERR"
  /\ ConvReturn(<<>>, "ERR")
  /\ UNCHANGED <<SqlHandleHooks, result, convIdx, wrapped>>

\* Lines 19-20: Split returned the statements; the Up line is written.
ConvertUp ==
  /\ UNCHANGED <<splitVars, delimVars, copyVars, versionVars>>
  /\ convPc = "split" /\ pc = "done" /\ ret.err = "nil"
  /\ result' = UpLine
  /\ convIdx' = 1
  /\ convPc' = "range"
  /\ UNCHANGED <<SqlHandleHooks, convRet, wrapped>>

\* The statement of the current iteration, its leading blank lines cut, and
\* what the hooks return for it.
convStmt == ret.statements[convIdx]
convLead == skipBlankLines(convStmt, <<>>)
convHooked == runHooks(SqlHandleHooks, convLead.rest)

\* Lines 22-71: one iteration of the loop over the statements.
ConvertStatement ==
  /\ UNCHANGED <<splitVars, delimVars, copyVars, versionVars>>
  /\ convPc = "range" /\ convIdx <= Len(ret.statements)
  /\ convHooked.err = "nil"
  /\ LET wrap == wraps(hasInternalSemicolon(convLead.rest), convHooked.val) IN
     /\ result' = result \o convLead.written \o writeStatement(convHooked.val, wrap)
     /\ wrapped' = Append(wrapped, wrap)
  /\ convIdx' = convIdx + 1
  /\ UNCHANGED <<SqlHandleHooks, convPc, convRet>>

\* Lines 44-47: a hook returned an error.
ConvertHookError ==
  /\ UNCHANGED <<splitVars, delimVars, copyVars, versionVars>>
  /\ convPc = "range" /\ convIdx <= Len(ret.statements)
  /\ convHooked.err # "nil"
  /\ result' = result \o convLead.written
  /\ ConvReturn(<<>>, "ERR")
  /\ UNCHANGED <<SqlHandleHooks, convIdx, wrapped>>

\* Lines 73-78: the text written after the last statement.
closingLine(stmts) ==
  IF Len(stmts) > 0 /\ ~hasSemicolonAtEnt(stmts[Len(stmts)]) THEN <<";", "\n">>
  ELSE <<>>

\* Lines 73-83: the code after the loop.
ConvertDown ==
  /\ UNCHANGED <<splitVars, delimVars, copyVars, versionVars>>
  /\ convPc = "range" /\ convIdx > Len(ret.statements)
  /\ result' = result \o closingLine(ret.statements) \o DownSection
  /\ ConvReturn(result', "nil")
  /\ UNCHANGED <<SqlHandleHooks, convIdx, wrapped>>

NextConvert ==
  \/ RawEOF
  \/ RawError
  \/ RawStatement
  \/ StdEOF
  \/ StdError
  \/ HandleSemicolon
  \/ HandleBegin
  \/ HandleEnd
  \/ HandleDelimiterCommand
  \/ HandleText
  \/ ConvertSplitError
  \/ ConvertUp
  \/ ConvertStatement
  \/ ConvertHookError
  \/ ConvertDown

SpecConvert == InitConvert /\ [][NextConvert]_vars

(***************************************************************************)
(* Version numbers.  parseFlywayVersion and convertToGooseTimestamp, as    *)
(* functions of the version text and the base year.                        *)
(***************************************************************************)
DigitList == <<"0","1","2","3","4","5","6","7","8","9">>

\* The value of a decimal digit.
DigitValue(d) == (CHOOSE i \in 1..10 : DigitList[i] = d) - 1

RECURSIVE SplitLoop(_, _, _, _)
SplitLoop(rest, sep, cur, acc) ==
  IF rest = <<>> THEN Append(acc, cur)
  ELSE IF Head(rest) = sep THEN SplitLoop(Tail(rest), sep, <<>>, Append(acc, cur))
  ELSE SplitLoop(Tail(rest), sep, Append(cur, Head(rest)), acc)

\* strings.Split(s, sep), for a separator of one character: the text between
\* the separators, one part more than there are separators.
stringsSplit(s, sep) == SplitLoop(s, sep, <<>>, <<>>)

\* The value of a numeral.  Values from 100000000 up stand for every larger
\* value as well: the callers compare a value only with limits below it.
RECURSIVE DigitsValue(_, _)
DigitsValue(ds, acc) ==
  IF ds = <<>> THEN acc
  ELSE LET v == acc * 10 + DigitValue(Head(ds)) IN
       DigitsValue(Tail(ds), IF v > 100000000 THEN 100000000 ELSE v)

RECURSIVE StripZeros(_)
StripZeros(ds) ==
  IF Len(ds) > 1 /\ Head(ds) = "0" THEN StripZeros(Tail(ds)) ELSE ds

\* The digits of two numerals of the same length: the first is the smaller
\* number exactly when it is the smaller text.
RECURSIVE DigitsLess(_, _)
DigitsLess(a, b) ==
  IF a = <<>> \/ b = <<>> THEN FALSE
  ELSE IF Head(a) # Head(b) THEN DigitValue(Head(a)) < DigitValue(Head(b))
  ELSE DigitsLess(Tail(a), Tail(b))

\* The largest int64, and the digits of the smallest one.
MaxInt64 ==
  <<"9","2","2","3","3","7","2","0","3","6","8","5","4","7","7","5","8","0","7">>
MinInt64Digits ==
  <<"9","2","2","3","3","7","2","0","3","6","8","5","4","7","7","5","8","0","8">>

\* Whether the digits, under the sign, are a number an int holds.
InIntRange(ds, negative) ==
  LET sig == StripZeros(ds)
      limit == IF negative THEN MinInt64Digits ELSE MaxInt64
  IN Len(sig) < Len(limit) \/ (Len(sig) = Len(limit) /\ ~DigitsLess(limit, sig))

\* strconv.Atoi: an optional sign and decimal digits, at least one, that an
\* int holds; everything else is an error.
Atoi(s) ==
  LET signed == s # <<>> /\ Head(s) \in {"+", "-"}
      ds == IF signed THEN Tail(s) ELSE s
      negative == signed /\ Head(s) = "-"
  IN
  IF ds = <<>> \/ (\E i \in 1..Len(ds) : ~IsDigit(ds[i])) \/ ~InIntRange(ds, negative)
    THEN [val |-> 0, err |-> TRUE]
    ELSE [val |-> IF negative THEN 0 - DigitsValue(ds, 0) ELSE DigitsValue(ds, 0),
          err |-> FALSE]

RECURSIVE FormatDigits(_)
FormatDigits(n) ==
  IF n < 10 THEN <<DigitList[n + 1]>>
  ELSE Append(FormatDigits(n \div 10), DigitList[(n % 10) + 1])

RECURSIVE Zeros(_)
Zeros(k) == IF k <= 0 THEN <<>> ELSE <<"0">> \o Zeros(k - 1)

\* Faulty variant of Pad: the number is written without padding.
PadNone(n, w) == IF n < 0 THEN <<"-">> \o FormatDigits(0 - n) ELSE FormatDigits(n)

\* The verb %0<w>d of fmt.Sprintf: the decimal digits of n, with zeros before
\* them, after the sign, up to w characters; never cut.
Pad(n, w) ==
  IF n < 0 THEN <<"-">> \o Zeros(w - 1 - Len(FormatDigits(0 - n))) \o FormatDigits(0 - n)
  ELSE Zeros(w - Len(FormatDigits(n))) \o FormatDigits(n)

MajorMax == 12
MinorMax == 31
PatchMax == 999999

VersionOf(major, minor, patch, err) ==
  [major |-> major, minor |-> minor, patch |-> patch, err |-> err]

VersionError == VersionOf(0, 0, 0, TRUE)

\* Faulty variant of partOutOfRange: a part of 0 is accepted.
partOutOfRangeBelowZero(v, max) == v.err \/ v.val < 0 \/ v.val > max

\* The test of a part: err != nil || part < 1 || part > max.
partOutOfRange(v, max) == v.err \/ v.val < 1 \/ v.val > max

\* parseFlywayVersion
parseFlywayVersion(versionStr) ==
  LET parts == stringsSplit(versionStr, ".") IN
  IF Len(parts) = 0 \/ Len(parts) > 3 THEN VersionError
  ELSE LET major == Atoi(parts[1]) IN
    IF partOutOfRange(major, MajorMax) THEN VersionError
    ELSE IF Len(parts) = 1 THEN VersionOf(major.val, 1, 0, FALSE)
    ELSE LET minor == Atoi(parts[2]) IN
      IF partOutOfRange(minor, MinorMax) THEN VersionError
      ELSE IF Len(parts) = 2 THEN VersionOf(major.val, minor.val, 0, FALSE)
      ELSE LET patch == Atoi(parts[3]) IN
        IF partOutOfRange(patch, PatchMax) THEN VersionError
        ELSE VersionOf(major.val, minor.val, patch.val, FALSE)

\* Faulty variant of timestampOf: the minor stands before the major.
timestampOfMinorFirst(major, minor, patch) ==
  Pad(minor, 2) \o Pad(major, 2) \o Pad(patch, 6)

\* Lines 688-691: fmt.Sprintf("%02d%02d%06d", major, minor, patch).
timestampOf(major, minor, patch) ==
  Pad(major, 2) \o Pad(minor, 2) \o Pad(patch, 6)

TimestampLen == 10

\* convertToGooseTimestamp
convertToGooseTimestamp(versionStr, baseYear) ==
  LET v == parseFlywayVersion(versionStr) IN
  IF v.err THEN [out |-> <<>>, err |-> TRUE]
  ELSE LET timestamp == timestampOf(v.major, v.minor, v.patch) IN
    IF Len(timestamp) # TimestampLen THEN [out |-> <<>>, err |-> TRUE]
    ELSE [out |-> baseYear \o timestamp, err |-> FALSE]

\* The parts the version texts are made of: the limits of the three ranges
\* and their neighbours, the parts of the versions of TestParseFlywayVersion,
\* and parts that are no plain numerals.
VersionParts ==
  {<<"0">>, <<"1">>, <<"2">>, <<"1","2">>, <<"1","3">>, <<"3","1">>, <<"3","2">>,
   <<"3","4","5">>, <<"9","9","9","9","9","9">>, <<"1","0","0","0","0","0","0">>,
   <<"a">>, <<>>, <<"+","1">>, <<"-","1">>, <<"0","1">>}

Dotted(a, b) == a \o <<".">> \o b

\* Versions of more than three parts.
LongVersions ==
  {<<"1",".","1",".","1",".","1">>, <<"1",".","2",".","3","4","5",".">>}

VersionInputs ==
  VersionParts
    \cup {Dotted(a, b) : a \in VersionParts, b \in VersionParts}
    \cup {Dotted(Dotted(a, b), c) : a \in VersionParts, b \in VersionParts,
                                    c \in VersionParts}
    \cup LongVersions

\* The versions of the second call.
OtherVersions ==
  {<<"2">>, <<"1",".","3","1">>, <<"1",".","2",".","3","4","5">>,
   <<"1",".","2",".","3","4","6">>, <<"1","2",".","1",".","1">>,
   <<"2",".","1",".","9","9","9","9","9","9">>}

\* The base years of TestConvertToGooseTimestamp.
BaseYears == {<<"2","0","0","0">>, <<"2","0","2","0">>}

InitVersion ==
  /\ NoSplit
  /\ NoSplitByDelimiter
  /\ NoConvert
  /\ NoCopy
  /\ verStr \in VersionInputs
  /\ verYear \in BaseYears
  /\ otherStr \in OtherVersions
  /\ parsed = NoParsed
  /\ converted = NoVersionResult
  /\ otherConverted = NoVersionResult
  /\ verPc = "start"

\* major, minor, patch, err := parseFlywayVersion(versionStr)
CallParseFlywayVersion ==
  /\ UNCHANGED <<splitVars, delimVars, convVars, copyVars>>
  /\ verPc = "start"
  /\ parsed' = parseFlywayVersion(verStr)
  /\ verPc' = "parsed"
  /\ UNCHANGED <<verStr, verYear, otherStr, converted, otherConverted>>

\* timestamp, err := convertToGooseTimestamp(versionStr, baseYear)
CallConvertToGooseTimestamp ==
  /\ UNCHANGED <<splitVars, delimVars, convVars, copyVars>>
  /\ verPc = "parsed"
  /\ converted' = convertToGooseTimestamp(verStr, verYear)
  /\ verPc' = "converted"
  /\ UNCHANGED <<verStr, verYear, otherStr, parsed, otherConverted>>

\* The second call, with the same base year.
CallConvertOther ==
  /\ UNCHANGED <<splitVars, delimVars, convVars, copyVars>>
  /\ verPc = "converted"
  /\ otherConverted' = convertToGooseTimestamp(otherStr, verYear)
  /\ verPc' = "done"
  /\ UNCHANGED <<verStr, verYear, otherStr, parsed, converted>>

NextVersion ==
  \/ CallParseFlywayVersion
  \/ CallConvertToGooseTimestamp
  \/ CallConvertOther

SpecVersion == InitVersion /\ [][NextVersion]_vars

(***************************************************************************)
(* CopyMigrateTable.  The database is its two tables: the versions of the  *)
(* Flyway table's rows, oldest first, and the version_id of the rows       *)
(* inserted into the Goose table.  Every call on db is written to dbOps;   *)
(* a call on a nil db panics.  A statement the database runs may fail.     *)
(* An error is the fixed parts of its message, the wrapping error's first. *)
(***************************************************************************)
NameTailMax == 62

RECURSIVE Repeat(_, _)
Repeat(c, n) == IF n <= 0 THEN <<>> ELSE <<c>> \o Repeat(c, n - 1)

LowerSet == {LowerLetters[i] : i \in 1..26}

\* validPattern.MatchString(tbl), for ^[a-z_][a-z0-9_]{0,62}$
validPattern(tbl) ==
  /\ tbl # <<>>
  /\ Len(tbl) - 1 <= NameTailMax
  /\ tbl[1] \in LowerSet \cup {"_"}
  /\ \A i \in 2..Len(tbl) : tbl[i] \in LowerSet \cup Digits \cup {"_"}

\* Faulty variant of validateTableNames: the first table alone is tested.
validateFirstTable(tables) == ~validPattern(tables[1])

\* validateTableNames: whether it returns an error.
validateTableNames(tables) == \E i \in 1..Len(tables) : ~validPattern(tables[i])

\* The messages, in the order of the code: "biao ming fei fa" of line 21,
\* the message of line 57, the message of line 26, "bu zhi chi de shu ju ku lei xing" of line 84,
\* the message of line 31, "wu ban ben ji lu" of line 34, the message of
\* lines 41 and 45, the message of line 134; sql.ErrNoRows, any other error of
\* the database, and the errors of the conversion.
MsgTableName == "table name illegal"
MsgNaming == "table name does not follow the naming rule"
MsgCreate == "creating the Goose table failed"
MsgDriver == "unsupported database type"
MsgRead == "reading the Flyway version failed"
MsgNoVersion == "no version record"
MsgConvert == "version conversion failed"
MsgInsert == "insert failed"
MsgNoRows == "sql: no rows in result set"
MsgDb == "database error"
MsgVersion == "invalid version"

NoError == <<>>

\* The table names: those of the tests, valid and invalid, names that break
\* one rule of the pattern each, and the longest name with the shortest one
\* beyond it.
ValidNames ==
  {<<"f","l","y","w","a","y","_","s","c","h","e","m","a">>,
   <<"g","o","o","s","e","_","v","e","r","s","i","o","n","s">>,
   <<"v","a","l","i","d","_","t","a","b","l","e">>,
   <<"_","t","1">>,
   Repeat("a", NameTailMax + 1)}

InvalidNames ==
  {<<>>,
   <<"f","l","y","w","a","y","!","h","i","s","t","o","r","y">>,
   <<"g","o","o","s","e",";","D","R","O","P"," ","T","A","B","L","E"," ","u",
  "s","e","r","s",";">>,
   <<"1","t">>,
   <<"F","l","y","w","a","y">>,
   <<"t","\n">>,
   Repeat("a", NameTailMax + 2)}

TableNames == ValidNames \cup InvalidNames

Drivers == {"mysql", "postgres", "sqlite3"}

\* The Flyway tables: empty, the row of the tests, a row without a version,
\* a row whose version is none, two rows, and a valid row before an invalid one.
FlywayTables ==
  {<<>>,
   <<<<"1",".","2",".","0","3","0","4","0","5">>>>,
   <<<<>>>>,
   <<<<"a",".","b",".","c">>>>,
   <<<<"1",".","1">>, <<"1",".","2",".","0","3","0","4","0","5">>>>,
   <<<<"1",".","1",".","1">>, <<"1","3",".","1",".","1">>>>}

\* The base years: the one of the tests, and one that is no number.
CopyYears == {<<"2","0","2","5">>, <<"y","e","a","r">>}

InitCopy ==
  /\ NoSplit
  /\ NoSplitByDelimiter
  /\ NoConvert
  /\ NoVersion
  /\ copyImpl \in {"latest", "all"}
  /\ driver \in Drivers
  /\ dbOpen \in BOOLEAN
  /\ flywayTable \in TableNames
  /\ gooseTable \in TableNames
  /\ copyYear \in CopyYears
  /\ flywayRows \in FlywayTables
  /\ gooseCreated = FALSE
  /\ gooseRows = <<>>
  /\ dbOps = <<>>
  /\ migrations = <<>>
  /\ copyIdx = 0
  /\ timestampVersion = <<>>
  /\ copyPc = "validate"
  /\ copyErr = NoError

\* return fmt.Errorf(...)
CopyReturns(err) ==
  /\ copyPc' = "done"
  /\ copyErr' = err

\* A method of a nil *sql.DB is called.
CopyPanics ==
  /\ copyPc' = "panic"
  /\ UNCHANGED copyErr

copyParams == <<copyImpl, driver, dbOpen, flywayTable, gooseTable, copyYear, flywayRows>>

\* Lines 20-22.
ValidateTableNames ==
  /\ UNCHANGED <<splitVars, delimVars, convVars, versionVars>>
  /\ copyPc = "validate"
  /\ IF validateTableNames(<<flywayTable, gooseTable>>)
       THEN CopyReturns(<<MsgTableName, MsgNaming>>)
       ELSE copyPc' = "create" /\ UNCHANGED copyErr
  /\ UNCHANGED <<copyParams, gooseCreated, gooseRows, dbOps, migrations, copyIdx,
                 timestampVersion>>

\* Lines 25-27, createGooseTable.
CreateGooseTable ==
  /\ UNCHANGED <<splitVars, delimVars, convVars, versionVars>>
  /\ copyPc = "create"
  /\ IF driver \notin {"mysql", "postgres"}
       THEN /\ CopyReturns(<<MsgCreate, MsgDriver>>)
            /\ UNCHANGED <<gooseCreated, dbOps>>
       ELSE IF ~dbOpen
         THEN CopyPanics /\ UNCHANGED <<gooseCreated, dbOps>>
         ELSE /\ dbOps' = Append(dbOps, "create")
              /\ \E failed \in BOOLEAN :
                   IF failed
                     THEN CopyReturns(<<MsgCreate, MsgDb>>) /\ UNCHANGED gooseCreated
                     ELSE /\ gooseCreated' = TRUE
                          /\ copyPc' = "read"
                          /\ UNCHANGED copyErr
  /\ UNCHANGED <<copyParams, gooseRows, migrations, copyIdx, timestampVersion>>

\* db.QueryRow(query).Scan(...) on a result of no rows: sql.ErrNoRows.
scanOfNoRows == [version |-> <<>>, err |-> <<MsgNoRows>>]

\* getLatestFlywayVersion: the version of the newest row.
getLatestFlywayVersion(failed) ==
  IF failed THEN [version |-> <<>>, err |-> <<MsgDb>>]
  ELSE IF flywayRows = <<>> THEN scanOfNoRows
  ELSE [version |-> flywayRows[Len(flywayRows)], err |-> NoError]

\* getAllFlywayVersions: the versions of all rows, oldest first.
getAllFlywayVersions(dbErr) ==
  IF dbErr # NoError THEN [results |-> <<>>, err |-> dbErr]
  ELSE [results |-> flywayRows, err |-> NoError]

\* copy.go lines 30-33 and part_002 lines 280-286: the rows are read.
ReadFlywayVersions ==
  /\ UNCHANGED <<splitVars, delimVars, convVars, versionVars>>
  /\ copyPc = "read"
  /\ dbOps' = Append(dbOps, "query")
  /\ IF copyImpl = "latest"
       THEN \E failed \in BOOLEAN :
              LET r == getLatestFlywayVersion(failed) IN
              IF r.err # NoError
                THEN CopyReturns(<<MsgRead>> \o r.err) /\ UNCHANGED <<migrations, copyIdx>>
                ELSE /\ migrations' = <<r.version>>
                     /\ copyIdx' = 1
                     /\ copyPc' = "convert"
                     /\ UNCHANGED copyErr
       ELSE \E dbErr \in {NoError, <<MsgDb>>, <<MsgNoRows>>} :
              LET r == getAllFlywayVersions(dbErr) IN
              IF r.err = <<MsgNoRows>>
                THEN CopyReturns(<<MsgNoVersion>>) /\ UNCHANGED <<migrations, copyIdx>>
              ELSE IF r.err # NoError
                THEN CopyReturns(<<MsgRead>> \o r.err) /\ UNCHANGED <<migrations, copyIdx>>
                ELSE /\ migrations' = r.results
                     /\ copyIdx' = 1
                     /\ copyPc' = "convert"
                     /\ UNCHANGED copyErr
  /\ UNCHANGED <<copyParams, gooseCreated, gooseRows, timestampVersion>>

\* strconv.ParseInt(s, 10, 64): whether it returns an error.
ParseIntFails(s) == Atoi(s).err

\* copy.go lines 34-46 and part_002 lines 287-300: the version of a row is
\* converted; part_002 line 309: the loop is over.
ConvertVersion ==
  /\ UNCHANGED <<splitVars, delimVars, convVars, versionVars>>
  /\ copyPc = "convert"
  /\ IF copyIdx > Len(migrations)
       THEN CopyReturns(NoError) /\ UNCHANGED timestampVersion
       ELSE LET version == migrations[copyIdx]
                conv == convertToGooseTimestamp(version, copyYear)
            IN
            IF version = <<>>
              THEN CopyReturns(<<MsgNoVersion>>) /\ UNCHANGED timestampVersion
            ELSE IF conv.err
              THEN CopyReturns(<<MsgConvert, MsgVersion>>) /\ UNCHANGED timestampVersion
            ELSE IF ParseIntFails(conv.out)
              THEN CopyReturns(<<MsgConvert, MsgVersion>>) /\ UNCHANGED timestampVersion
            ELSE /\ timestampVersion' = conv.out
                 /\ copyPc' = "insert"
                 /\ UNCHANGED copyErr
  /\ UNCHANGED <<copyParams, gooseCreated, gooseRows, dbOps, migrations, copyIdx>>

\* copy.go line 49 and part_002 lines 303-306, insertGooseVersion.
InsertGooseVersion ==
  /\ UNCHANGED <<splitVars, delimVars, convVars, versionVars>>
  /\ copyPc = "insert"
  /\ dbOps' = Append(dbOps, "insert")
  /\ \E failed \in BOOLEAN :
       IF failed
         THEN CopyReturns(<<MsgInsert, MsgDb>>) /\ UNCHANGED <<gooseRows, copyIdx>>
         ELSE /\ gooseRows' = Append(gooseRows, timestampVersion)
              /\ IF copyImpl = "latest"
                   THEN CopyReturns(NoError) /\ UNCHANGED copyIdx
                   ELSE /\ copyIdx' = copyIdx + 1
                        /\ copyPc' = "convert"
                        /\ UNCHANGED copyErr
  /\ UNCHANGED <<copyParams, gooseCreated, migrations, timestampVersion>>

NextCopy ==
  \/ ValidateTableNames
  \/ CreateGooseTable
  \/ ReadFlywayVersions
  \/ ConvertVersion
  \/ InsertGooseVersion

SpecCopy == InitCopy /\ [][NextCopy]_vars

(***************************************************************************)
(* Properties.                                                             *)
(***************************************************************************)
Done == pc = "done" /\ ret.err = "nil"

Last(s) == s[Len(s)]

\* The text of the input at the positions of a span.
TextAt(span) == SubSeq(input, span.from, span.to)

\* The tokenizer reached the end of the stream inside a quoted string or a
\* block comment: the only tokens NextToken returns together with io.EOF
\* and a text.
EndedInsideToken == token.err = "EOF" /\ token.Value # <<>>

\* C1: when no DELIMITER directive was read and the input did not end inside a
\* quoted string or a block comment, the statements Split returns, concatenated
\* in order, are exactly the input.
RoundTrip ==
  (Done /\ directives = <<>> /\ ~EndedInsideToken)
    => Flatten(ret.statements) = input

\* C1 witness: Split returned several statements, one of them with a quoted
\* literal, and a text after the last terminator.
RoundTripWitness ==
  /\ Done /\ directives = <<>> /\ ~EndedInsideToken
  /\ Len(ret.statements) = 3
  /\ \E i \in 1..Len(input) : input[i] = "'"
  /\ Last(input) # ";"
  /\ Flatten(ret.statements) = input

SelectOne ==
  <<"S","E","L","E","C","T"," ","1",";">>
SelectTwo ==
  <<" ","S","E","L","E","C","T"," ","2",";">>

\* C2: a TokenSemicolon read at depth 0 ends the statement: the statement
\* appended is the input text from the character after the previous boundary
\* (the start of the input or a ';') through this ';', the buffer is empty
\* afterwards, and with no directive read the statement starts where the
\* previous one ended.  Split("SELECT 1; SELECT 2;") is the two statements
\* "SELECT 1;" and " SELECT 2;".
SemicolonEndsStatement ==
  /\ (pc = "loop" /\ token.Type = "TokenSemicolon" /\ beginDepth = 0)
       => /\ statements # <<>>
          /\ stmtBuilder = <<>>
          /\ Len(spans) = Len(statements)
          /\ LET sp == Last(spans) IN
             /\ Last(statements) = TextAt(sp)
             /\ sp.to = pos - 1
             /\ input[sp.to] = ";"
             /\ sp.from = 1 \/ input[sp.from - 1] = ";"
             /\ directives = <<>> =>
                  sp.from = IF Len(spans) = 1 THEN 1 ELSE spans[Len(spans) - 1].to + 1
  /\ (Done /\ input = TestMultipleStatementsInput)
       => ret.statements = <<SelectOne, SelectTwo>>

\* C2 witness: a second statement that keeps its leading blank was ended by
\* a ';'.
SemicolonEndsStatementWitness ==
  /\ pc = "loop" /\ token.Type = "TokenSemicolon" /\ beginDepth = 0
  /\ Len(statements) = 2
  /\ Last(statements) = <<" ", "a", ";">>

NoSemicolonIn(text) == \A i \in 1..Len(text) : text[i] # ";"

\* C3: at the end of the input in standard mode the text accumulated after the
\* last terminator, when not empty, is the last statement returned; and a
\* non-empty input without any ';' yields the one statement that is the input.
FinalTextEmitted ==
  /\ (Done /\ currentDelim = Semi /\ stmtBuilder # <<>>)
       => (ret.statements # <<>> /\ Last(ret.statements) = stmtBuilder)
  /\ (Done /\ currentDelim = Semi /\ input # <<>> /\ NoSemicolonIn(input))
       => ret.statements = <<input>>

\* The length of the run of quote characters q that ends at position e of a
\* literal opened at position a.
QuoteRunLen(text, a, e, q) ==
  e - (CHOOSE j \in a..(e - 1) :
         /\ j = a \/ text[j] # q
         /\ \A k \in (j + 1)..e : text[k] = q)

\* Position e holds the quote that closes the literal opened at position a:
\* the same quote character, not followed by another one, ending a run of odd
\* length (the pairs before it are escaped quotes).
IsClosingQuote(text, a, e) ==
  /\ e > a /\ e <= Len(text)
  /\ text[e] = text[a]
  /\ e = Len(text) \/ text[e + 1] # text[a]
  /\ QuoteRunLen(text, a, e, text[a]) % 2 = 1

TokenIsQuoted ==
  /\ token.Type # "none" /\ token.err # "ERR"
  /\ token.Value # <<>> /\ Head(token.Value) \in {"'", "\""}

\* C4: a token that starts with a quote is one text token that runs through
\* the closing quote of the same kind (doubled quotes and quotes of the other
\* kind do not close it), or to the end of the input when there is none, and
\* no statement ends inside it.
QuotedLiteralOpaque ==
  /\ TokenIsQuoted =>
       LET a == prevPos
           b == pos - 1
       IN
       /\ token.Type = "TokenText"
       /\ token.Value = SubSeq(input, a, b)
       /\ \A e \in (a + 1)..(b - 1) : ~IsClosingQuote(input, a, e)
       /\ IF token.err = "nil" THEN IsClosingQuote(input, a, b)
          ELSE b = Len(input) /\ ~IsClosingQuote(input, a, b)
       /\ \A i \in 1..Len(spans) : spans[i].to < a
       /\ pc = "loop" => HasSuffix(stmtBuilder, token.Value)
  /\ (Done /\ input = TestQuotedSemicolonInput) => ret.statements = <<input>>

\* C4 witness: a literal with a ';', an escaped quote and a quote of the
\* other kind was read as one token.
QuotedLiteralOpaqueWitness ==
  /\ pc = "loop" /\ TokenIsQuoted /\ token.err = "nil"
  /\ input = QuotedLiteralInput
  /\ token.Value = <<"'", ";", "'", "'", "\"", "'">>

\* C5: a TokenSemicolon read at depth > 0 ends no statement: it is appended to
\* the buffer, which stays the input text since the last boundary.  The
\* BEGIN ... END block of TestBeginEndBlock is returned as one statement.
SemicolonInsideBlock ==
  /\ (pc = "loop" /\ token.Type = "TokenSemicolon" /\ beginDepth > 0)
       => /\ stmtBuilder # <<>> /\ Last(stmtBuilder) = ";"
          /\ stmtBuilder = SubSeq(input, bufStart + 1, pos - 1)
          /\ \A i \in 1..Len(spans) : spans[i].to < pos - 1
  /\ (Done /\ input = TestBeginEndBlockInput) => ret.statements = <<input>>
  /\ (Done /\ input = KwBEGIN \o Semi \o <<"e","n","d">> \o Semi)
       => ret.statements = <<input>>
  /\ (Done /\ input = NestedBlockInput)
       => ret.statements = <<SubSeq(input, 1, 30), SubSeq(input, 31, 33)>>

\* C5 witness: a block with an internal ';' was returned as one statement,
\* ended by the ';' after its END.
SemicolonInsideBlockWitness ==
  /\ Done
  /\ input = KwBEGIN \o Semi \o <<"e","n","d">> \o Semi
  /\ ret.statements = <<input>>

\* One iteration of the loop read a token of this type.
ReadToken(type) == pc = "loop" /\ pc' = "loop" /\ token'.Type = type

\* C6: the depth is never negative; a BEGIN token adds exactly 1 to it; an END
\* token takes exactly 1 from a depth > 0 and leaves a depth of 0 at 0; in both
\* cases the token's text is appended to the buffer and no statement is ended.
\* No other token changes the depth.
DepthNeverNegative ==
  /\ [](beginDepth >= 0)
  /\ [][/\ ReadToken("TokenBegin") =>
             /\ beginDepth' = beginDepth + 1
             /\ stmtBuilder' = stmtBuilder \o SubSeq(input, pos, pos' - 1)
             /\ statements' = statements
        /\ ReadToken("TokenEnd") =>
             /\ beginDepth' = (IF beginDepth > 0 THEN beginDepth - 1 ELSE 0)
             /\ stmtBuilder' = stmtBuilder \o SubSeq(input, pos, pos' - 1)
             /\ statements' = statements
        /\ (pc = "loop" /\ token'.Type \notin {"TokenBegin", "TokenEnd"})
             => beginDepth' = beginDepth]_vars

\* C6 witness: an END token was read at depth 0.
DepthNeverNegativeWitness ==
  /\ pc = "loop" /\ token.Type = "TokenEnd" /\ beginDepth = 0
  /\ stmtBuilder = <<"e","n","d">>

\* The first position at or after p that holds no space (Len + 1 if none).
RECURSIVE SkipSpaces(_, _)
SkipSpaces(text, p) ==
  IF p <= Len(text) /\ IsSpace(text[p]) THEN SkipSpaces(text, p + 1) ELSE p

\* The positions at which an occurrence of the text w ends, the occurrence
\* starting at or after position lo.
EndsOf(text, w, lo) ==
  {e \in 1..Len(text) :
     e - Len(w) + 1 >= lo /\ SubSeq(text, e - Len(w) + 1, e) = w}

Min(S) == CHOOSE x \in S : \A y \in S : x <= y

\* The last position of the dollar-quoted text whose AS is at position a and
\* whose first '$' is at position d1: the end of the first `$tag$` after the
\* opening `$tag$`, or the end of the text when the opening tag or the body is
\* not closed.  The tag is whatever stands between the first two '$'.
DollarBodyEnd(text, d1) ==
  LET d2s == {e \in (d1 + 1)..Len(text) : text[e] = "$"} IN
  IF d2s = {} THEN Len(text)
  ELSE LET d2 == Min(d2s)
           closing == SubSeq(text, d1, d2)
           ends == EndsOf(text, closing, d2 + 1)
       IN IF ends = {} THEN Len(text) ELSE Min(ends)

\* The last token is AS, optional whitespace and a '$'.
TokenIsAsDollar ==
  /\ token.Type # "none" /\ token.err = "nil"
  /\ Len(token.Value) >= 3
  /\ ToUpper(SubSeq(token.Value, 1, 2)) = KwAS
  /\ LET k == SkipSpaces(token.Value, 3) IN
       k <= Len(token.Value) /\ token.Value[k] = "$"

\* C7: AS (in any letter case), optional whitespace and `$tag$` open a text
\* that is read as one text token through the first `$tag$` that follows (to
\* the end of the input if there is none): no statement ends inside it, and
\* the function of TestFunctionWithSemicolon is returned as one statement.
DollarBodyOpaque ==
  /\ (errAt = 0 /\ TokenIsAsDollar) =>
       LET a == prevPos
           b == pos - 1
           d1 == SkipSpaces(input, a + 2)
       IN
       /\ token.Type = "TokenText"
       /\ token.Value = SubSeq(input, a, b)
       /\ b = DollarBodyEnd(input, d1)
       /\ \A i \in 1..Len(spans) : spans[i].to < a
       /\ pc = "loop" => HasSuffix(stmtBuilder, token.Value)
  /\ (Done /\ input = TestFunctionWithSemicolonInput) => ret.statements = <<input>>
  /\ (Done /\ input = DollarBodyInput)
       => ret.statements = <<DollarBodyStatement, <<" ", "y">> >>

\* C7 witness: a body holding ';', BEGIN, END, a quote, comment markers and
\* `$$` was closed by its own tag and the statement ended at the ';' after it.
DollarBodyOpaqueWitness ==
  /\ pc = "loop" /\ token.Type = "TokenSemicolon"
  /\ input = DollarBodyInput
  /\ statements = <<DollarBodyStatement>>

\* The last iteration was a raw scan that ended at the active delimiter.
AfterDelimiterMatch == pc = "loop" /\ raw.via = "delim" /\ currentDelim # Semi

\* The last iteration was a raw scan that ended at a DELIMITER directive.
AfterRawDirective == pc = "loop" /\ raw.via = "directive" /\ pos = raw.pos

\* A raw scan that ended at the active delimiter d read the input up to the
\* first d after its start and returned that text without d.
DelimiterMatchVerbatim ==
  AfterDelimiterMatch =>
    LET d == currentDelim
        a == prevPos
        b == pos - 1 - Len(d)
    IN
    /\ raw.content = SubSeq(input, a, b)
    /\ SubSeq(input, b + 1, pos - 1) = d
    /\ \A e \in a..(pos - 2) :
         ~(e - Len(d) + 1 >= a /\ SubSeq(input, e - Len(d) + 1, e) = d)

CallProc ==
  <<"C","A","L","L"," ","p","r","o","c","(",")">>

\* C8: under a delimiter d other than ';' a raw scan ends at the first d; the
\* text read before it, d stripped, is appended as a statement unless it is
\* only whitespace; every statement is the input text at its positions and no
\* statement overlaps the text of a DELIMITER directive.
\* Split("DELIMITER //\nCALL proc()//\nDELIMITER ;") is the statement "CALL proc()".
RawDelimiterSplits ==
  /\ DelimiterMatchVerbatim
  /\ AfterDelimiterMatch =>
       /\ stmtBuilder = <<>>
       /\ IF TrimSpace(raw.content) # <<>>
            THEN /\ statements # <<>> /\ Last(statements) = raw.content
                 /\ Last(spans) = [from |-> prevPos, to |-> prevPos + Len(raw.content) - 1]
            ELSE \A i \in 1..Len(spans) : spans[i].to < prevPos
  /\ Len(spans) = Len(statements)
  /\ \A i \in 1..Len(spans) :
       /\ statements[i] = TextAt(spans[i])
       /\ \A j \in 1..Len(directives) :
            spans[i].to < directives[j].from \/ spans[i].from > directives[j].to
  /\ (Done /\ input = TestCustomDelimiterInput) => ret.statements = <<CallProc>>

\* C8 witness: under "//" one statement was emitted and the whitespace before
\* the next "//" was not.
RawDelimiterSplitsWitness ==
  /\ AfterDelimiterMatch
  /\ currentDelim = <<"/", "/">>
  /\ statements = << <<"x">> >>
  /\ raw.content = <<" ">>

CallDelimiterProc ==
  <<"C","A","L","L","D","E","L","I","M","I","T","E","R"," ","p","r","o","c",
    "(",")">>
Delimiter33Proc ==
  <<"D","E","L","I","M","I","T","E","R","3","3"," ","p","r","o","c","(",")">>

\* C9: in raw-scan mode the word DELIMITER is read as a directive only when
\* nothing, ';' or whitespace stands before it and ';' or whitespace after it;
\* otherwise it is content: the scan goes on, the delimiter is unchanged and
\* the text comes out verbatim, at the delimiter or at the end of the input.
RawDirectiveOnlyAtWordBoundary ==
  /\ AfterRawDirective =>
       LET w == prevPos + Len(raw.content) IN
       /\ ToUpper(SubSeq(input, w, w + 8)) = KwDELIMITER
       /\ \/ raw.content = <<>>
          \/ Last(raw.content) = ";"
          \/ IsSpace(Last(raw.content))
       /\ w + 9 <= Len(input)
       /\ input[w + 9] = ";" \/ IsSpace(input[w + 9])
  /\ DelimiterMatchVerbatim
  /\ (Done /\ raw.via = "eof") => raw.content = SubSeq(input, prevPos, Len(input))
  /\ (Done /\ input = TestCustomDelimiter2Input) => ret.statements = <<CallDelimiterProc>>
  /\ (Done /\ input = TestCustomDelimiter3Input) => ret.statements = <<Delimiter33Proc>>

\* C10 as stated: every statement Split returned, split again as an input of
\* its own, comes back as the one statement it is.
ResplitIsIdentity ==
  (Done /\ prior.resplit) => ret.statements = <<input>>

\* C10: every statement Split returned for an input in which it read no
\* DELIMITER directive, split again as an input of its own, comes back as the
\* one statement it is.
ResplitIsIdentityWithoutDirective ==
  (Done /\ prior.resplit /\ ~prior.directive) => ret.statements = <<input>>

\* C10 witness: a block statement with internal terminators was split again
\* and came back whole.
ResplitIsIdentityWitness ==
  /\ Done /\ prior.resplit /\ ~prior.directive
  /\ input = SubSeq(NestedBlockInput, 1, 30)
  /\ ret.statements = <<input>>

\* C11: when the input ends inside an unterminated quoted string or an
\* unterminated block comment, Split returns no error and the text read from
\* the opening quote or `/*` to the end of the input is the end of the last
\* statement returned.
UnterminatedTextKept ==
  (pc = "done" /\ EndedInsideToken) =>
    /\ ret.err = "nil"
    /\ ret.statements # <<>>
    /\ HasSuffix(Last(ret.statements), SubSeq(input, prevPos, Len(input)))

\* The text v of an AS token has no closing `$` for its opening tag, or no
\* `$tag$` after the opening one.
DollarBodyUnclosed(v) ==
  LET d1 == SkipSpaces(v, 3)
      d2s == {e \in (d1 + 1)..Len(v) : v[e] = "$"}
  IN \/ d2s = {}
     \/ EndsOf(v, SubSeq(v, d1, Min(d2s)), Min(d2s) + 1) = {}

\* The last iteration read AS, optional whitespace and '$', and the input
\* ended before the dollar-quoted body was closed.
EndedInsideDollarBody ==
  /\ pc = "loop" /\ TokenIsAsDollar /\ token.pos = pos
  /\ pos = Len(input) + 1
  /\ DollarBodyUnclosed(token.Value)

\* C12: when the input ends inside a dollar-quoted body opened after AS (no
\* closing `$tag$`, or no closing '$' of the opening tag), the token is all
\* the text from AS to the end of the input, it is in the buffer, and Split
\* then returns no error and a last statement that ends with that text.
UnterminatedDollarBodyKept ==
  /\ [](EndedInsideDollarBody =>
          /\ token.Value = SubSeq(input, prevPos, Len(input))
          /\ HasSuffix(stmtBuilder, token.Value))
  /\ [][EndedInsideDollarBody =>
          /\ pc' = "done"
          /\ ret'.err = "nil"
          /\ ret'.statements # <<>>
          /\ HasSuffix(Last(ret'.statements), token.Value)]_vars

\* C12 witness: Split returned, as its last statement, a text that ends inside
\* a dollar-quoted body holding a ';', a quote and a `$$`.
UnterminatedDollarBodyKeptWitness ==
  /\ Done /\ ~prior.resplit
  /\ Len(input) > 6
  /\ SubSeq(input, 1, 6) = <<"A","s"," ","$","t","$">>
  /\ DollarBodyUnclosed(input)
  /\ \E i \in 7..Len(input) : input[i] = ";"
  /\ \E i \in 7..Len(input) : input[i] = "'"
  /\ \E i \in 7..(Len(input) - 1) : input[i] = "$" /\ input[i + 1] = "$"
  /\ ret.statements = <<input>>

\* C13: the end of the stream is no error.  On every input whose stream
\* reports nothing but the end of the stream Split returns a nil error, in
\* standard and in raw-scan mode; the step that returns has read the input to
\* its end and appends the pending buffer (in raw-scan mode with the text of
\* the last scan), when it is not empty, to the statements; the empty input
\* gives the empty list and no error.
EndOfStreamIsNoError ==
  /\ []((pc = "done" /\ errAt = 0) => ret.err = "nil")
  /\ []((pc = "done" /\ input = <<>>) => (ret.statements = <<>> /\ ret.err = "nil"))
  /\ [][(pc = "loop" /\ pc' = "done" /\ errAt = 0) =>
          LET pending == IF currentDelim = Semi THEN stmtBuilder
                         ELSE stmtBuilder \o raw'.content
          IN /\ pos' = Len(input) + 1
             /\ ret'.statements = IF pending # <<>> THEN Append(statements, pending)
                                  ELSE statements]_vars

\* C13 witness: the stream ended in raw-scan mode after one statement had been
\* emitted, and the text of the last scan was returned as the second.
EndOfStreamIsNoErrorWitness ==
  /\ Done /\ errAt = 0 /\ ~prior.resplit
  /\ currentDelim # Semi /\ raw.via = "eof" /\ raw.content # <<>>
  /\ Len(ret.statements) = 2
  /\ Last(ret.statements) = raw.content

\* C14: a stream error other than the end of the stream aborts Split.  It
\* never reads past the rune at which the stream fails, in standard or raw-scan
\* mode and inside any token reader; the iteration whose read fails returns the
\* error; and the list returned with it is nil, whatever statements had been
\* completed before.
StreamErrorAborts ==
  /\ []((pc = "loop" /\ errAt # 0) => pos <= errAt)
  /\ []((pc = "done" /\ errAt # 0) =>
          (pos = errAt /\ ret.err = "ERR" /\ ret.statements = <<>>))
  /\ [][(pc = "loop" /\ (token'.err = "ERR" \/ raw'.err = "ERR")) =>
          (pc' = "done" /\ ret'.err = "ERR" /\ ret'.statements = <<>>)]_vars

\* C14 witness: the stream failed after Split had completed a statement, and
\* Split returned the error and no statement.
StreamErrorAbortsWitness ==
  /\ pc = "done" /\ errAt # 0
  /\ statements # <<>>
  /\ ret.err = "ERR" /\ ret.statements = <<>>

\* C15: the result list is built only by appending.  No iteration of Split
\* changes, removes or reorders a statement already in the list: it leaves the
\* list alone or adds one statement at its end, and the final flush adds at
\* most one more; the list returned without error is that list.  The
\* statements stand in the order of the input texts they were read from, and
\* each statement ended adds one element, equal to an earlier one or not.
AppendOnly ==
  /\ [](/\ Len(statements) = Len(spans)
        /\ \A i \in 1..(Len(spans) - 1) : spans[i].to < spans[i + 1].from
        /\ Done => ret.statements = statements)
  /\ [][pc = "loop" =>
          /\ Len(statements') \in {Len(statements), Len(statements) + 1}
          /\ \A i \in 1..Len(statements) : statements'[i] = statements[i]]_vars

\* C15 witness: Split returned three statements, the third equal to the first,
\* the second different.
AppendOnlyWitness ==
  /\ Done /\ ~prior.resplit
  /\ Len(ret.statements) = 3
  /\ ret.statements[1] = ret.statements[3]
  /\ ret.statements[1] # ret.statements[2]

\* The first and last statement TestSplitWithStatementSplit expects.
DropFunction ==
  <<"D","R","O","P"," ","F","U","N","C","T","I","O","N"," ","I","F"," ","E",
    "X","I","S","T","S"," ","X","X","X","X","1",";">>

\* The marked block TestSplitWithStatementSplit expects.
MarkedBlock ==
  <<"-","-"," ","+","g","o","o","s","e"," ","S","t","a","t","e","m","e","n",
    "t","B","e","g","i","n","\n","C","R","E","A","T","E"," ","O","R"," ",
    "R","E","P","L","A","C","E"," ","F","U","N","C","T","I","O","N"," ","X",
    "X","X","X","(","T","E","X","T",")","\n","R","E","T","U","R","N","S",
    " ","V","O","I","D"," ","A","S"," ","$","f","u","n","c","t","i","o","n",
    "$","\n","B","E","G","I","N","\n","\t","X","X","X","X","\n","E","N","D",
    ";","\n","$","f","u","n","c","t","i","o","n","$"," ","l","a","n","g",
    "u","a","g","e"," ","p","l","p","g","s","q","l",";","\n","-","-"," ",
    "+","g","o","o","s","e"," ","S","t","a","t","e","m","e","n","t","E","n",
    "d">>
\* The statements of a list, each with its surrounding whitespace trimmed.
Trimmed(stmts) == [i \in 1..Len(stmts) |-> TrimSpace(stmts[i])]

\* C16: for the script of TestSplitWithStatementSplit (a statement, a block
\* marked by `-- +goose StatementBegin` and `-- +goose StatementEnd` comment
\* lines, a statement, a final newline) Split returns exactly three
\* statements: trimmed, the first statement, the text from the begin marker
\* line through the end marker line, and the last statement.
MarkedBlockIsOneStatement ==
  (Done /\ input = TestSplitWithStatementSplitInput) =>
    Trimmed(ret.statements) = <<DropFunction, MarkedBlock, DropFunction>>

\* C17: for the input c c "SELECT 1;" "\n" c "SELECT 2;" c, where c is the
\* line comment "-- abc;" with its newline, Split returns exactly three
\* statements: c c "SELECT 1;", then "\n" c "SELECT 2;", then c without its
\* trailing newline.
CommentLinesStayWithStatement ==
  (Done /\ input = TestCommentLinesInput) =>
    ret.statements =
      << commentLine \o commentLine \o SelectOne,
         <<"\n">> \o commentLine \o Tail(SelectTwo),
         TrimSpace(commentLine) >>

\* The lines of the script, as the scanner returns them.
Lines == lines

\* The lines i..j of the script are a well-formed span: a begin marker line,
\* lines that are no markers, an end marker line.
WellFormedSpan(i, j) ==
  /\ 1 <= i /\ i < j /\ j <= Len(kinds)
  /\ kinds[i] = "begin" /\ kinds[j] = "end"
  /\ \A k \in (i + 1)..(j - 1) : kinds[k] = "text"

\* The last step handled a line by the branch kind.
Handled(kind) ==
  /\ scanPc = "scan" /\ scanned' = scanned + 1
  /\ kinds' = Append(kinds, kind)

\* C18: a begin marker line flushes the accumulated segment, when it is not
\* empty or whitespace-only, as a non-atomic element, and starts a new segment
\* that holds just the marker line; an end marker line after it is appended
\* to the segment and the segment is flushed as one atomic element.  So the
\* element added at the end of a well-formed begin...end span is flagged true
\* and is the span's lines, marker lines included, joined by newlines.
BeginEndSpanIsAtomic ==
  /\ [][Handled("begin") =>
          /\ buf' = Lines[scanned + 1]
          /\ IF TrimSpace(buf) # <<>>
               THEN /\ stmtsOut' = Append(stmtsOut, buf)
                    /\ blocks' = Append(blocks, FALSE)
               ELSE stmtsOut' = stmtsOut /\ blocks' = blocks]_vars
  /\ [][(Handled("end") /\ kinds # <<>> /\ Last(kinds) # "end") =>
          /\ stmtsOut' = Append(stmtsOut, buf \o <<"\n">> \o Lines[scanned + 1])
          /\ blocks' = Append(blocks, TRUE)
          /\ buf' = <<>>]_vars
  /\ [](\A i \in 1..scanned :
          WellFormedSpan(i, scanned) =>
            /\ stmtsOut # <<>>
            /\ Last(stmtsOut) = JoinLines(SubSeq(Lines, i, scanned))
            /\ Last(blocks) = TRUE)

\* C18 witness: a line of SQL, a begin marker line and an end marker line gave
\* a non-atomic element and an atomic element of two lines.
BeginEndSpanIsAtomicWitness ==
  /\ scanPc = "done"
  /\ Lines = <<LineSql, LineGooseBegin, LineGooseEnd>>
  /\ stmtsOut = <<LineSql, LineGooseBegin \o <<"\n">> \o LineGooseEnd>>
  /\ blocks = <<FALSE, TRUE>>

\* C19: every element flagged atomic is a span delimited by explicit markers:
\* its first line is a begin marker line and its last line an end marker line.
AtomicIsMarkedSpan ==
  \A k \in 1..Len(blocks) :
    blocks[k] =>
      LET ls == ScanLines(stmtsOut[k]) IN
      /\ ls # <<>>
      /\ markerCmd(ls[1], prefix) \in CmdStatementBegin
      /\ markerCmd(Last(ls), prefix) \in CmdStatementEnd

\* The line i of the script was handled as a marker line.
IsMarker(i) == kinds[i] \in {"begin", "end"}

\* C20 as stated: the two-word short-form markers are recognised only when
\* the prefix is empty; with a non-empty prefix a comment line is a marker
\* only in the three-word form.
ShortFormOnlyWithoutPrefix ==
  \A i \in 1..Len(kinds) :
    /\ Lines[i] = LineShortBegin => (kinds[i] = "begin" <=> prefix = <<>>)
    /\ Lines[i] = LineShortEnd => (kinds[i] = "end" <=> prefix = <<>>)
    /\ (prefix # <<>> /\ IsMarker(i)) => Len(Fields(Lines[i])) = 3

\* C20: the two-word short-form markers are recognised under every prefix,
\* empty or not; the three-word form `-- +<prefix> StatementBegin` /
\* `-- +<prefix> StatementEnd` is recognised exactly when the prefix is not
\* empty and is the line's second word, with or without its '+'; a comment
\* line of any other number of words is no marker.
ShortFormUnderEveryPrefix ==
  \A i \in 1..Len(kinds) :
    /\ Lines[i] = LineShortBegin => kinds[i] = "begin"
    /\ Lines[i] = LineShortEnd => kinds[i] = "end"
    /\ Lines[i] = LineGooseBegin => (kinds[i] = "begin" <=> prefix = PrefixGoose)
    /\ Lines[i] = LineGooseEnd => (kinds[i] = "end" <=> prefix = PrefixGoose)
    /\ Lines[i] = LinePaddedEnd => (kinds[i] = "end" <=> prefix = PrefixGoose)
    /\ Lines[i] = LineOtherBegin => kinds[i] = "text"
    /\ IsMarker(i) =>
         LET ss == Fields(Lines[i]) IN
         \/ Len(ss) = 2
         \/ /\ Len(ss) = 3 /\ prefix # <<>>
            /\ ss[2] \in {prefix, <<"+">> \o prefix}

\* C20 witness: under the prefix goose a short-form begin marker line and a
\* three-word end marker line were both handled as markers.
ShortFormUnderEveryPrefixWitness ==
  /\ scanPc = "done" /\ prefix = PrefixGoose
  /\ Lines = <<LineShortBegin, LineSql, LineGooseEnd>>
  /\ kinds = <<"begin", "text", "end">>
  /\ blocks = <<TRUE>>

\* The scanner is inside an explicit block that began at line i: line i was
\* handled as a begin marker and no marker line was handled after it.
OpenBlockAt(i) ==
  /\ i \in 1..Len(kinds) /\ kinds[i] = "begin"
  /\ \A k \in (i + 1)..Len(kinds) : kinds[k] = "text"

\* C21: the step that ends the scan appends the remaining segment, flagged
\* false, when the segment trimmed of whitespace is not empty, and adds nothing
\* otherwise; it logs the warning exactly when the scan ends inside an explicit
\* block, and then the last element returned is the text from the begin marker
\* line to the end of the script, flagged false.
FinalSegmentFlushed ==
  /\ [][(scanPc = "scan" /\ scanPc' = "done") =>
          /\ scanned = Len(Lines)
          /\ IF TrimSpace(buf) # <<>>
               THEN /\ stmtsOut' = Append(stmtsOut, buf)
                    /\ blocks' = Append(blocks, FALSE)
               ELSE stmtsOut' = stmtsOut /\ blocks' = blocks
          /\ warning' = (\E i \in 1..Len(kinds) : OpenBlockAt(i))]_vars
  /\ [](scanPc = "done" =>
          /\ Len(stmtsOut) = Len(blocks)
          /\ \A i \in 1..Len(kinds) :
               OpenBlockAt(i) =>
                 /\ warning
                 /\ stmtsOut # <<>>
                 /\ Last(stmtsOut) = JoinLines(SubSeq(Lines, i, Len(Lines)))
                 /\ Last(blocks) = FALSE)

\* C21 witness: the script ended inside a block opened after a line of SQL;
\* the warning was logged and the block's two lines were returned as a
\* non-atomic element.
FinalSegmentFlushedWitness ==
  /\ scanPc = "done" /\ warning
  /\ Lines = <<LineSql, LineGooseBegin, LineSql>>
  /\ stmtsOut = <<LineSql, LineGooseBegin \o <<"\n">> \o LineSql>>
  /\ blocks = <<FALSE, FALSE>>

\* ConvertFlywayToGoose returned without error.
Converted == convPc = "done" /\ convRet.err = "nil"

\* The length of the leading part of a statement made of lines that hold only
\* whitespace: the longest prefix of whitespace that ends with a newline.
BlankLeadLen(stmt) ==
  LET ks == {k \in 1..Len(stmt) :
               stmt[k] = "\n" /\ \A j \in 1..k : IsSpace(stmt[j])}
  IN IF ks = {} THEN 0 ELSE CHOOSE k \in ks : \A m \in ks : m <= k

BlankLead(stmt) == SubSeq(stmt, 1, BlankLeadLen(stmt))
AfterBlankLead(stmt) == SubSeq(stmt, BlankLeadLen(stmt) + 1, Len(stmt))

\* The text has a ';' that is not in its trailing run of ';', spaces, tabs,
\* newlines and carriage returns.
InnerSemicolon(text) ==
  \E i \in 1..Len(text) :
    /\ text[i] = ";"
    /\ \E j \in (i + 1)..Len(text) : text[j] \notin {";", " ", "\t", "\n", "\r"}

\* The text of statement i as the converter writes it: its leading blank lines
\* cut, the hooks applied.
WrittenText(i) == runHooks(SqlHandleHooks, AfterBlankLead(ret.statements[i])).val

\* Statement i is to be wrapped: it has an inner ';' and its written text does
\* not hold `-- +goose StatementBegin`.
ToWrap(i) ==
  /\ InnerSemicolon(ret.statements[i])
  /\ ~Contains(WrittenText(i), MarkerStatementBegin)

\* The output for statement i: its leading blank lines, then its text, between
\* a StatementBegin line and a StatementEnd line when it is to be wrapped,
\* and a newline.
PieceOf(i) ==
  BlankLead(ret.statements[i])
    \o (IF ToWrap(i) THEN WrapBegin \o WrittenText(i) \o WrapEnd ELSE WrittenText(i))
    \o <<"\n">>

\* split_test.go TestConvertFlywayToGoose, the output expected
SimpleFunctionExpected ==
  <<"-","-"," ","+","g","o","o","s","e"," ","U","p","\n","\n","-","-"," ",
    "+","g","o","o","s","e"," ","S","t","a","t","e","m","e","n","t","B","e",
    "g","i","n","\n","C","R","E","A","T","E"," ","F","U","N","C","T","I",
    "O","N"," ","t","e","s","t","(",")"," ","R","E","T","U","R","N","S"," ",
    "v","o","i","d"," ","A","S"," ","$","$","\n","B","E","G","I","N","\n",
    "E","N","D",";","\n","$","$"," ","L","A","N","G","U","A","G","E"," ",
    "p","l","p","g","s","q","l",";","\n","-","-"," ","+","g","o","o","s",
    "e"," ","S","t","a","t","e","m","e","n","t","E","n","d","\n","\n","-",
    "-"," ","+","g","o","o","s","e"," ","D","o","w","n","\n","-","-"," ",
    "D","o","w","n"," ","m","i","g","r","a","t","i","o","n"," ","i","s"," ",
    "n","o","t"," ","s","u","p","p","o","r","t","e","d"," ","i","n"," ","a",
    "u","t","o","m","a","t","i","c"," ","c","o","n","v","e","r","s","i","o",
    "n","\n">>

\* split_test.go TestConvertFlywayToGoose, the output expected
MultipleFunctionsExpected ==
  <<"-","-"," ","+","g","o","o","s","e"," ","U","p","\n","\n","-","-"," ",
    "+","g","o","o","s","e"," ","S","t","a","t","e","m","e","n","t","B","e",
    "g","i","n","\n","C","R","E","A","T","E"," ","F","U","N","C","T","I",
    "O","N"," ","f","u","n","c","1","(",")"," ","R","E","T","U","R","N","S",
    " ","v","o","i","d"," ","A","S"," ","$","$","\n","B","E","G","I","N",
    "\n","E","N","D",";","\n","$","$"," ","L","A","N","G","U","A","G","E",
    " ","p","l","p","g","s","q","l",";","\n","-","-"," ","+","g","o","o",
    "s","e"," ","S","t","a","t","e","m","e","n","t","E","n","d","\n","\n",
    "\n","\n","-","-"," ","+","g","o","o","s","e"," ","S","t","a","t","e",
    "m","e","n","t","B","e","g","i","n","\n","C","R","E","A","T","E"," ",
    "O","R"," ","R","E","P","L","A","C","E"," ","F","U","N","C","T","I","O",
    "N"," ","f","u","n","c","2","(",")"," ","R","E","T","U","R","N","S"," ",
    "i","n","t"," ","A","S"," ","$","$","\n","B","E","G","I","N","\n"," ",
    " "," "," ","R","E","T","U","R","N"," ","1",";","\n","E","N","D",";",
    "\n","$","$"," ","L","A","N","G","U","A","G","E"," ","p","l","p","g",
    "s","q","l",";","\n","-","-"," ","+","g","o","o","s","e"," ","S","t",
    "a","t","e","m","e","n","t","E","n","d","\n","\n","-","-"," ","+","g",
    "o","o","s","e"," ","D","o","w","n","\n","-","-"," ","D","o","w","n",
    " ","m","i","g","r","a","t","i","o","n"," ","i","s"," ","n","o","t"," ",
    "s","u","p","p","o","r","t","e","d"," ","i","n"," ","a","u","t","o","m",
    "a","t","i","c"," ","c","o","n","v","e","r","s","i","o","n","\n">>

\* split_test.go TestConvertFlywayToGoose, the output expected
NonFunctionExpected ==
  <<"-","-"," ","+","g","o","o","s","e"," ","U","p","\n","C","R","E","A",
    "T","E"," ","T","A","B","L","E"," ","u","s","e","r","s"," ","(","\n",
    " "," "," "," ","i","d"," ","S","E","R","I","A","L"," ","P","R","I","M",
    "A","R","Y"," ","K","E","Y",",","\n"," "," "," "," ","n","a","m","e",
    " ","T","E","X","T"," ","N","O","T"," ","N","U","L","L","\n",")",";",
    "\n","\n","\n","I","N","S","E","R","T"," ","I","N","T","O"," ","u","s",
    "e","r","s"," ","(","n","a","m","e",")"," ","V","A","L","U","E","S"," ",
    "(","'","t","e","s","t","'",")",";","\n","\n","-","-"," ","+","g","o",
    "o","s","e"," ","D","o","w","n","\n","-","-"," ","D","o","w","n"," ",
    "m","i","g","r","a","t","i","o","n"," ","i","s"," ","n","o","t"," ","s",
    "u","p","p","o","r","t","e","d"," ","i","n"," ","a","u","t","o","m","a",
    "t","i","c"," ","c","o","n","v","e","r","s","i","o","n","\n">>

FunctionWithoutSemicolonExpected ==
  <<"-","-"," ","+","g","o","o","s","e"," ","U","p","\n","C","R","E","A",
    "T","E"," ","F","U","N","C","T","I","O","N"," ","t","e","s","t","(",")",
    " ","R","E","T","U","R","N","S"," ","v","o","i","d"," ","A","S"," ","$",
    "$","\n","B","E","G","I","N","\n","E","N","D","\n","$","$"," ","L","A",
    "N","G","U","A","G","E"," ","p","l","p","g","s","q","l","\n",";","\n",
    "\n","-","-"," ","+","g","o","o","s","e"," ","D","o","w","n","\n","-",
    "-"," ","D","o","w","n"," ","m","i","g","r","a","t","i","o","n"," ","i",
    "s"," ","n","o","t"," ","s","u","p","p","o","r","t","e","d"," ","i","n",
    " ","a","u","t","o","m","a","t","i","c"," ","c","o","n","v","e","r","s",
    "i","o","n","\n">>

\* split_test.go TestConvertFlywayToGoose_EdgeCases, "empty input", the output expected
EmptyInputExpected ==
  <<"-","-"," ","+","g","o","o","s","e"," ","U","p","\n","\n","-","-"," ",
    "+","g","o","o","s","e"," ","D","o","w","n","\n","-","-"," ","D","o",
    "w","n"," ","m","i","g","r","a","t","i","o","n"," ","i","s"," ","n","o",
    "t"," ","s","u","p","p","o","r","t","e","d"," ","i","n"," ","a","u","t",
    "o","m","a","t","i","c"," ","c","o","n","v","e","r","s","i","o","n","\n">>

\* The last statement, trailing whitespace removed, is not empty and does not
\* end in ';'.
LastStatementUnterminated ==
  /\ ret.statements # <<>>
  /\ LET t == TrimRight(Last(ret.statements)) IN t # <<>> /\ Last(t) # ";"

\* C23: an output returned without error starts with the line `-- +goose Up`
\* and ends with the Down section; between them stand the pieces written for
\* the statements, followed by one line holding ';' exactly when the last
\* statement, trailing whitespace removed, is not empty and does not end in
\* ';'; when Split returned no statement, as for the empty input, the output is
\* the Up line and the Down section.  The outputs that
\* TestConvertFlywayToGoose_EdgeCases expects are returned.  With an error the
\* output is the empty string.
UpLineAndDownSection ==
  /\ Converted =>
       LET out == convRet.out
           mid == SubSeq(out, Len(UpLine) + 1, Len(out) - Len(DownSection))
           pieces == Flatten([i \in 1..Len(ret.statements) |-> PieceOf(i)])
       IN
       /\ Len(out) >= Len(UpLine) + Len(DownSection)
       /\ HasPrefix(out, UpLine)
       /\ HasSuffix(out, DownSection)
       /\ IF LastStatementUnterminated
            THEN mid = pieces \o <<";", "\n">> /\ HasSuffix(mid, <<"\n", ";", "\n">>)
            ELSE mid = pieces
       /\ ret.statements = <<>> => out = UpLine \o DownSection
  /\ (Converted /\ input = <<>>) => convRet.out = EmptyInputExpected
  /\ (Converted /\ input = FunctionWithoutSemicolonInput)
       => convRet.out = FunctionWithoutSemicolonExpected
  /\ (convPc = "done" /\ convRet.err # "nil") => convRet.out = <<>>

\* C23 witness: the last of two statements ended in a blank after its text,
\* and a line holding ';' was written before the Down section.
UpLineAndDownSectionWitness ==
  /\ Converted /\ SqlHandleHooks = <<>>
  /\ ret.statements = << <<"a", ";">>, <<"a", " ">> >>
  /\ convRet.out = UpLine \o <<"a", ";", "\n", "a", " ", "\n", ";", "\n">> \o DownSection

\* The statements of DirectiveAfterTextInput.
DirectiveAfterTextStatements ==
  << <<"a", ";">>, <<"c">>, <<"\n">> >>

\* C24: a TokenDelimiterCommand read in standard mode makes the token's
\* delimiter word the active delimiter, empties the buffer and leaves the
\* statements as they are; the input from the start of the discarded buffer
\* to the end of the directive is in no statement, then or later, and every
\* statement returned is the input text at its positions.
DirectiveClearsBuffer ==
  /\ [][(ReadToken("TokenDelimiterCommand") /\ currentDelim = Semi) =>
          /\ token'.Value = SubSeq(input, pos, pos' - 1)
          /\ stmtBuilder = SubSeq(input, bufStart + 1, pos - 1)
          /\ currentDelim' = token'.DelimiterWord
          /\ stmtBuilder' = <<>>
          /\ statements' = statements
          /\ directives' = Append(directives, [from |-> pos, to |-> pos' - 1,
                                               since |-> bufStart + 1])]_vars
  /\ [](\A j \in 1..Len(directives) : \A i \in 1..Len(spans) :
          spans[i].to < directives[j].since \/ spans[i].from > directives[j].to)
  /\ [](Done => /\ Len(ret.statements) = Len(spans)
                /\ \A i \in 1..Len(spans) : ret.statements[i] = TextAt(spans[i]))
  /\ []((Done /\ input = DirectiveAfterTextInput)
          => ret.statements = DirectiveAfterTextStatements)

\* C24 witness: a directive was read after a statement and a text of three
\* characters; the statement stayed, the text and the directive are in no
\* statement returned.
DirectiveClearsBufferWitness ==
  /\ Done /\ input = DirectiveAfterTextInput
  /\ directives = << [from |-> 6, to |-> 18, since |-> 3] >>
  /\ ret.statements = DirectiveAfterTextStatements

\* The last iteration read, in standard mode, a DELIMITER directive that a
\* newline or a ';' ends.
AfterStdDirective ==
  /\ pc = "loop" /\ token.Type = "TokenDelimiterCommand" /\ token.pos = pos
  /\ input[pos - 1] \in {"\n", ";"}

\* C25: in standard mode the word DELIMITER is a directive in every letter
\* case, and the active delimiter after the directive is the text that stands
\* after the keyword, through the end of the line or the ';', trimmed of
\* surrounding whitespace.
DirectiveKeywordAnyCase ==
  AfterStdDirective =>
    /\ ToUpper(SubSeq(input, prevPos, prevPos + 8)) = KwDELIMITER
    /\ currentDelim = TrimSpace(SubSeq(input, prevPos + 9, pos - 1))

\* The position of the word DELIMITER of the directive the last raw scan read.
RawDirectiveWord == prevPos + Len(raw.content)

\* The statements of RawThenStandardInput.
RawThenStandardStatements ==
  << <<"x">>, <<"\n", "y", " ">>, <<"\n", "z", ";">>,
     <<"b", "e", "g", "i", "n", ";", "e", "n", "d", ";">>, <<"w">> >>

\* C26: a raw scan that ends at a DELIMITER directive returns the text before
\* the word; that text is appended as a statement unless it is only
\* whitespace, and the active delimiter becomes the text after the keyword,
\* through the end of the line or the ';', trimmed (the empty word when the
\* input ends inside the directive).  When the new delimiter is ';' the next
\* iterations read tokens again: a ';' at depth 0 ends the statement and is
\* kept in it, a ';' at depth > 0 ends none.
RawDirectiveSwitches ==
  /\ [](AfterRawDirective =>
          LET w == RawDirectiveWord IN
          /\ raw.content = SubSeq(input, prevPos, w - 1)
          /\ ToUpper(SubSeq(input, w, w + 8)) = KwDELIMITER
          /\ stmtBuilder = <<>>
          /\ IF TrimSpace(raw.content) # <<>>
               THEN /\ statements # <<>> /\ Last(statements) = raw.content
                    /\ Last(spans) = [from |-> prevPos, to |-> w - 1]
               ELSE \A i \in 1..Len(spans) : spans[i].to < prevPos
          /\ IF input[pos - 1] \in {"\n", ";"}
               THEN currentDelim = TrimSpace(SubSeq(input, w + 9, pos - 1))
               ELSE pos = Len(input) + 1 /\ currentDelim = <<>>)
  /\ [][(InStandardMode /\ raw.via = "directive" /\ pc' = "loop"
           /\ token'.Type = "TokenSemicolon") =>
          /\ raw' = raw /\ pos' = pos + 1 /\ input[pos] = ";"
          /\ IF beginDepth = 0
               THEN /\ statements' = Append(statements, stmtBuilder \o Semi)
                    /\ stmtBuilder' = <<>>
               ELSE /\ statements' = statements
                    /\ stmtBuilder' = stmtBuilder \o Semi]_vars
  /\ []((Done /\ input = RawThenStandardInput)
          => ret.statements = RawThenStandardStatements)

\* C26 witness: under "//" a directive restored ';' after the text "\ny ",
\* which was emitted, and the input after it came out split at its top-level
\* ';'.
RawDirectiveSwitchesWitness ==
  /\ Done /\ input = RawThenStandardInput
  /\ raw.via = "directive" /\ raw.content = <<"\n", "y", " ">>
  /\ currentDelim = Semi
  /\ ret.statements = RawThenStandardStatements

\* Split returned from a raw scan that met the end of the input.
EndedInRawMode == pc = "done" /\ currentDelim # Semi /\ raw.err = "EOF" /\ raw.pos = pos

\* C27: when the input ends during a raw scan, Split returns no error, and
\* the input text from the start of that scan to the end of the input, when not
\* empty, is the last statement returned.
RawEndOfInputEmitsRest ==
  EndedInRawMode =>
    /\ ret.err = "nil"
    /\ prevPos <= Len(input) =>
         /\ ret.statements # <<>>
         /\ Last(ret.statements) = SubSeq(input, prevPos, Len(input))

\* The position of the last character of the line comment that starts at
\* position a: its newline, or the end of the text when no newline follows.
LineCommentEnd(text, a) ==
  LET nl == {e \in (a + 2)..Len(text) : text[e] = "\n"} IN
  IF nl = {} THEN Len(text) ELSE Min(nl)

\* The Lexer is about to read a line comment: "--" stands at the position of
\* the next token.
AtLineComment ==
  /\ InStandardMode /\ errAt = 0
  /\ pos + 1 <= Len(input)
  /\ SubSeq(input, pos, pos + 1) = <<"-","-">>

\* The Lexer is about to read a terminated block comment: "/*" stands at the
\* position of the next token and a "*/" follows it.
AtBlockComment ==
  /\ InStandardMode /\ errAt = 0
  /\ pos + 1 <= Len(input)
  /\ SubSeq(input, pos, pos + 1) = <<"/","*">>
  /\ EndsOf(input, <<"*","/">>, pos + 2) # {}

\* This step wrote the input up to position e to the buffer, as it stands in
\* the input, and neither ended a statement nor changed the depth of blocks.
CommentKept(e) ==
  /\ pc' = "loop"
  /\ pos' = e + 1
  /\ stmtBuilder' = stmtBuilder \o SubSeq(input, pos, e)
  /\ statements' = statements
  /\ beginDepth' = beginDepth
  /\ currentDelim' = currentDelim

CommentedBlockStatements ==
  << <<"b","e","g","i","n"," ","/","*"," ",";"," ","e","n","d"," ","*","/"," ",
       "-","-"," ","B","E","G","I","N"," ","e","n","d",";","\n","x",";"," ",
       "e","n","d",";">>,
     <<" ","y",";">> >>

\* C28: in standard mode a line comment is read through its newline (or to the
\* end of the input) and a terminated block comment through its first "*/" in
\* one step that writes the comment text to the buffer as it stands in the
\* input, ends no statement and leaves the depth of blocks alone, whatever
\* ';', BEGIN or END the comment holds; the test's two comment lines stay
\* in front of the first statement.
CommentsAreOpaque ==
  /\ [][(AtLineComment => CommentKept(LineCommentEnd(input, pos)))
        /\ (AtBlockComment =>
              CommentKept(Min(EndsOf(input, <<"*","/">>, pos + 2))))]_vars
  /\ []((pc = "done" /\ input = CommentedBlockInput /\ errAt = 0)
          => ret = [statements |-> CommentedBlockStatements, err |-> "nil"])
  /\ []((pc = "done" /\ input = TestCommentPrefixInput /\ errAt = 0)
          => ret = [statements |->
                      << commentLine \o commentLine
                           \o <<"S","E","L","E","C","T"," ","1",";">>,
                         <<" ","S","E","L","E","C","T"," ","2",";">> >>,
                    err |-> "nil"])

\* A line comment and a block comment, each holding a ';' and a block keyword,
\* were read inside an open block and stand in the buffer of its statement.
CommentsAreOpaqueWitness ==
  /\ pc = "loop" /\ input = CommentedBlockInput /\ errAt = 0
  /\ prevPos = 19 /\ pos = 33
  /\ token.Value = SubSeq(input, 19, 32)
  /\ stmtBuilder = SubSeq(input, 1, 32)
  /\ statements = <<>>
  /\ beginDepth = 1

\* C29: no step but the read of a BEGIN or END token changes the depth of
\* blocks, so the depth a statement or a directive leaves behind is the depth
\* the next statement starts with; while the depth is above 0 no step of
\* standard mode appends a statement or moves the start of the buffer, and
\* when no directive was read the end of the input then returns the whole
\* text since that start, the BEGIN that opened the block included, as the
\* one last statement.
DepthCarriedAcrossStatements ==
  /\ [][/\ (pc = "loop" /\ (statements' # statements \/ directives' # directives
                              \/ currentDelim # Semi))
             => beginDepth' = beginDepth
        /\ (InStandardMode /\ beginDepth > 0 /\ pc' = "loop")
             => /\ statements' = statements
                /\ beginDepth' = 0 \/ directives' # directives
                     \/ (bufStart' = bufStart /\ stmtBuilder' # <<>>)
        /\ (InStandardMode /\ beginDepth = 0 /\ beginDepth' = 1 /\ directives = <<>>)
             => /\ bufStart' = bufStart /\ bufStart < pos
                /\ stmtBuilder' = SubSeq(input, bufStart + 1, pos' - 1)
        /\ (InStandardMode /\ beginDepth > 0 /\ directives = <<>> /\ errAt = 0
              /\ pc' = "done")
             => /\ pos = Len(input) + 1
                /\ ret'.statements =
                     Append(statements, SubSeq(input, bufStart + 1, Len(input)))]_vars
  /\ []((Done /\ input = KwBEGIN \o Semi \o <<"a">> \o Semi)
          => ret.statements = <<input>>)
  /\ []((Done /\ input = OpenNestedInput) => ret.statements = <<input>>)
  /\ []((Done /\ input = OpenBlockAcrossInput)
          => ret.statements = << <<"b">>, <<"\n","c",";"," ","d",";">> >>)

\* The read that the next iteration of the loop starts with returns, and with
\* a result that one branch of the loop handles.
IterationReady ==
  IF currentDelim = Semi
    THEN LET tok == NextToken(src, pos) IN
         \/ tok.err \in {"EOF", "ERR"}
         \/ /\ tok.err = "nil"
            /\ tok.Type \in {"TokenSemicolon", "TokenBegin", "TokenEnd",
                              "TokenDelimiterCommand", "TokenText"}
    ELSE readUntilDelimiter(src, pos, currentDelim).err \in {"nil", "EOF", "ERR"}

\* C30: the position in the input never passes the end of the input, every
\* iteration of the loop of Split either moves it forward or leaves the loop,
\* in standard mode and in raw-scan mode, under the empty delimiter and after
\* a pushed-back look-ahead as well, the loop is left at the end of the input
\* when the stream does not fail, and as long as the loop has not been left
\* the read of its next iteration returns and is handled: the distance of the
\* position to the end of the input bounds the number of iterations, so
\* every call of Split returns.
SplitTerminates ==
  /\ [](pos \in 1..(Len(input) + 1))
  /\ [](pc = "loop" => IterationReady)
  /\ [][pc = "loop" =>
          /\ pos' > pos \/ pc' = "done"
          /\ (pc' = "done" /\ errAt = 0) => pos' = Len(input) + 1]_vars
  /\ []((Done /\ input = PushbackThenEmptyInput /\ errAt = 0)
          => ret.statements =
               << KwDELIMITER \o <<"x">>, <<"a">>, <<"b">> >>)

\* C30 witness: Split returned after a run that pushed a look-ahead character
\* back in raw-scan mode, switched to the empty delimiter and read the rest of
\* the input under it.
SplitTerminatesWitness ==
  /\ Done /\ input = PushbackThenEmptyInput /\ errAt = 0
  /\ currentDelim = <<>>
  /\ Len(directives) = 2
  /\ Len(ret.statements) = 3
  /\ pos = Len(input) + 1

\* The Lexer is about to read the word AS (in any letter case), optional
\* whitespace and an opening `$tag$` that a closing `$tag$` follows: d1 and d2
\* are the positions of the two '$' of the opening tag.
AtClosedDollarBody(d1, d2) ==
  /\ InStandardMode /\ errAt = 0
  /\ pos + 2 <= Len(input)
  /\ ToUpper(SubSeq(input, pos, pos + 1)) = KwAS
  /\ ~isWordRune(input[pos + 2])
  /\ d1 = SkipSpaces(input, pos + 2)
  /\ d1 <= Len(input) /\ input[d1] = "$"
  /\ d2 \in (d1 + 1)..Len(input)
  /\ input[d2] = "$"
  /\ \A e \in (d1 + 1)..(d2 - 1) : input[e] # "$"
  /\ EndsOf(input, SubSeq(input, d1, d2), d2 + 1) # {}

\* C31: the token that starts at AS and an opening `$tag$` ends with the first
\* `$tag$` that starts after the opening tag, and nowhere earlier, whatever
\* `$$` or `$other$` stands before it; it is one text token equal to the input
\* from AS through that closing tag, written to the buffer in one step that
\* ends no statement and leaves the depth of blocks alone.
DollarBodyEndsAtItsTag ==
  /\ [][\A d1, d2 \in 1..Len(input) :
          AtClosedDollarBody(d1, d2) =>
            LET e == Min(EndsOf(input, SubSeq(input, d1, d2), d2 + 1)) IN
            /\ pc' = "loop"
            /\ pos' = e + 1
            /\ token'.Type = "TokenText"
            /\ token'.Value = SubSeq(input, pos, e)
            /\ stmtBuilder' = stmtBuilder \o SubSeq(input, pos, e)
            /\ statements' = statements
            /\ beginDepth' = beginDepth]_vars
  /\ []((Done /\ input = TaggedBodyInput)
          => ret.statements = <<SubSeq(input, 1, 76), <<" ","y">> >>)

\* C31 witness: the body under the tag BODY, holding `$$`, `$B$`, `$BODY $`,
\* a quoted ';', BEGIN and END, was read as one token through its `$BODY$`.
DollarBodyEndsAtItsTagWitness ==
  /\ pc = "loop" /\ input = TaggedBodyInput
  /\ prevPos = 5 /\ pos = 65
  /\ token.Value = SubSeq(input, 5, 64)
  /\ statements = <<>>
  /\ beginDepth = 0

\* The Lexer is about to read the word AS (in any letter case) that, after
\* optional whitespace, a character other than '$' follows at position k.
AtPlainAs(k) ==
  /\ InStandardMode /\ errAt = 0
  /\ pos + 2 <= Len(input)
  /\ ToUpper(SubSeq(input, pos, pos + 1)) = KwAS
  /\ ~isWordRune(input[pos + 2])
  /\ k = SkipSpaces(input, pos + 2)
  /\ k <= Len(input) /\ input[k] # "$"

PlainAsStatements ==
  << <<"a"," ","a","s"," ","'","x",";","'",";">>,
     <<" ","a","s"," ","b","e","g","i","n"," ",";","e","n","d",";">>,
     <<" ","a","s"," ","-","-",";","\n","z",";">>,
     <<" ","w">> >>

\* C32: when a character other than '$' follows AS and the whitespace after
\* it, the token is the text of AS and that whitespace, written to the buffer;
\* the Lexer goes on at the character after the whitespace, and the quoted
\* literal, the block, the comment and the ';' that follow are read as they
\* are read anywhere else.
PlainAsIsText ==
  /\ [][\A k \in 1..Len(input) :
          AtPlainAs(k) =>
            /\ pc' = "loop"
            /\ pos' = k
            /\ token'.Type = "TokenText"
            /\ token'.Value = SubSeq(input, pos, k - 1)
            /\ stmtBuilder' = stmtBuilder \o SubSeq(input, pos, k - 1)
            /\ statements' = statements
            /\ beginDepth' = beginDepth
            /\ currentDelim' = Semi]_vars
  /\ []((Done /\ input = PlainAsInput) => ret.statements = PlainAsStatements)

\* C32 witness: after AS and a space the word BEGIN was read as a BEGIN token.
PlainAsIsTextWitness ==
  /\ pc = "loop" /\ input = PlainAsInput
  /\ token.Type = "TokenBegin" /\ token.pos = pos
  /\ stmtBuilder = <<" ","a","s"," ","b","e","g","i","n">>
  /\ beginDepth = 1
  /\ Len(statements) = 1

RawLexicalStatements ==
  << <<"b","e","g","i","n",";"," ","'","a">>,
     <<"b","'"," ","-","-"," ","c">>,
     <<"e","n","d",";">>,
     <<"\n","q",";">>,
     <<" ","r">> >>

\* C33: an iteration in raw-scan mode leaves the depth of blocks alone and
\* appends a statement only when it ends at the active delimiter, at a
\* DELIMITER directive or at the end of the input; when it ends at the active
\* delimiter it ends at the first occurrence of the delimiter after its start,
\* whatever ';', quote, comment marker, BEGIN or END stands before it.
RawModeHasNoLexer ==
  /\ [][(InRawMode /\ errAt = 0) =>
          /\ beginDepth' = beginDepth
          /\ raw'.pos = pos'
          /\ statements' # statements
               => \/ pc' = "done" /\ raw'.err = "EOF" /\ pos' = Len(input) + 1
                  \/ pc' = "loop" /\ raw'.via = "directive"
                  \/ pc' = "loop" /\ raw'.via = "delim"
          /\ (pc' = "loop" /\ raw'.via = "delim")
               => IF currentDelim = <<>> THEN pos' = pos + 1
                  ELSE /\ EndsOf(input, currentDelim, pos) # {}
                       /\ pos' - 1 = Min(EndsOf(input, currentDelim, pos))
                       /\ raw'.content = SubSeq(input, pos, pos' - 1 - Len(currentDelim))
                       /\ currentDelim' = currentDelim]_vars
  /\ []((Done /\ input = RawLexicalInput) => ret.statements = RawLexicalStatements)

\* C33 witness: under "//" the scan that started inside the quoted literal
\* ended at the "//" inside the line comment, after the scan before it had
\* passed a BEGIN and a ';' and ended inside the literal.
RawModeHasNoLexerWitness ==
  /\ InRawMode /\ input = RawLexicalInput
  /\ currentDelim = <<"/","/">>
  /\ raw.via = "delim" /\ raw.pos = pos
  /\ statements = << <<"b","e","g","i","n",";"," ","'","a">>,
                     <<"b","'"," ","-","-"," ","c">> >>
  /\ beginDepth = 0

\* The text read by this step holds the word DELIMITER, in any letter case.
ReadsDelimiterWord ==
  \E a \in pos..(pos' - Len(KwDELIMITER)) :
    ToUpper(SubSeq(input, a, a + Len(KwDELIMITER) - 1)) = KwDELIMITER

\* C34: an iteration of the loop is a read of NextToken when the active
\* delimiter is ';', and then the raw scanner's last result stays as it was,
\* and a read of readUntilDelimiter under the active delimiter when it is
\* anything else, and then the Lexer's last token stays as it was; both read
\* from the position the step before left, and the active delimiter
\* changes only in a step that reads a DELIMITER directive.
OneReaderPerStep ==
  [][pc = "loop" =>
       /\ IF currentDelim = Semi
            THEN /\ token' = NextToken(src, pos)
                 /\ pos' = token'.pos
                 /\ raw' = raw
            ELSE /\ raw' = readUntilDelimiter(src, pos, currentDelim)
                 /\ pos' = raw'.pos
                 /\ token' = token
       /\ currentDelim' # currentDelim =>
            /\ ReadsDelimiterWord
            /\ Len(directives') = Len(directives) + 1
            /\ IF currentDelim = Semi THEN token'.Type = "TokenDelimiterCommand"
               ELSE raw'.via = "directive"]_vars

\* C34 witness: the Lexer read the directive that made "//" the delimiter, the
\* raw scanner read a statement and the directive that made ';' the delimiter
\* again, and the Lexer read the ';' that ended the next statement.
OneReaderPerStepWitness ==
  /\ InStandardMode /\ input = RawThenStandardInput
  /\ Len(directives) = 2
  /\ raw.via = "directive" /\ raw.pos = token.pos - 3
  /\ token.Type = "TokenSemicolon" /\ token.pos = pos
  /\ Len(statements) = 3

\* The line is an end marker line under the prefix: a comment line of two
\* words whose second is the command, with or without a '+', or, under a
\* non-empty prefix, of three words whose second is the prefix, with or
\* without a '+', and whose third is the command.
IsEndMarkerLine(text, pfx) ==
  LET line == TrimSpace(text)
      ss == Fields(line)
  IN
  /\ HasPrefix(line, <<"-","-">>)
  /\ \/ /\ Len(ss) = 2
        /\ \E c \in CmdStatementEnd : ss[2] = c \/ ss[2] = <<"+">> \o c
     \/ /\ pfx # <<>> /\ Len(ss) = 3
        /\ ss[2] = pfx \/ ss[2] = <<"+">> \o pfx
        /\ ss[3] \in CmdStatementEnd

\* The elements flagged atomic so far.
AtomicElements == {i \in 1..Len(blocks) : blocks[i]}

\* C35: after every line scanned and at the return the texts and the flags
\* are as many, and the elements flagged atomic are as many as the end marker
\* lines scanned so far, at the return the end marker lines of the script.
FlagsMatchEndMarkers ==
  /\ Len(stmtsOut) = Len(blocks)
  /\ lines = ScanLines(script)
  /\ Cardinality(AtomicElements) =
       Cardinality({j \in 1..scanned : IsEndMarkerLine(lines[j], prefix)})
  /\ scanPc = "done" => scanned = Len(lines)

\* C35 witness: a script of two end marker lines, one of them padded and
\* without '+', and a line of SQL returned two atomic elements and one that
\* is not.
FlagsMatchEndMarkersWitness ==
  /\ scanPc = "done" /\ prefix = PrefixGoose
  /\ lines = <<LineGooseEnd, SubSeq(LinePaddedEnd, 1, Len(LinePaddedEnd) - 1), LineSql>>
  /\ blocks = <<TRUE, TRUE, FALSE>>
  /\ Len(stmtsOut) = 3

\* A part that is a decimal numeral: digits, at least one, after at most one sign.
IsNumeral(p) ==
  LET ds == IF p # <<>> /\ Head(p) \in {"+", "-"} THEN Tail(p) ELSE p IN
  /\ ds # <<>>
  /\ \A i \in 1..Len(ds) : IsDigit(ds[i])

NumeralValue(p) ==
  IF Head(p) = "-" THEN 0 - DigitsValue(Tail(p), 0)
  ELSE IF Head(p) = "+" THEN DigitsValue(Tail(p), 0)
  ELSE DigitsValue(p, 0)

\* The limit of the i-th part of a version.
PartLimit(i) == IF i = 1 THEN MajorMax ELSE IF i = 2 THEN MinorMax ELSE PatchMax

\* A version of one to three numerals, each within its range.
VersionInRange(parts) ==
  /\ Len(parts) \in 1..3
  /\ \A i \in 1..Len(parts) :
       /\ IsNumeral(parts[i])
       /\ NumeralValue(parts[i]) \in 1..PartLimit(i)

DigitAt(n, k) == DigitList[((n \div (10 ^ k)) % 10) + 1]
TwoDigits(n) == <<DigitAt(n, 1), DigitAt(n, 0)>>
SixDigits(n) ==
  <<DigitAt(n, 5), DigitAt(n, 4), DigitAt(n, 3), DigitAt(n, 2), DigitAt(n, 1), DigitAt(n, 0)>>

TripleLess(a, b) ==
  \/ a.major < b.major
  \/ a.major = b.major /\ a.minor < b.minor
  \/ a.major = b.major /\ a.minor = b.minor /\ a.patch < b.patch

TripleEqual(a, b) == a.major = b.major /\ a.minor = b.minor /\ a.patch = b.patch

\* A text of fourteen digits.
IsTimestamp(t) == Len(t) = 14 /\ \A i \in 1..14 : IsDigit(t[i])

\* C40: with the same base year of four digits, the timestamps of two valid
\* versions are fourteen digits each and are ordered as the versions' triples
\* (major, minor, patch): a smaller triple gives a smaller number, equal
\* triples give equal timestamps.
TimestampKeepsOrder ==
  (verPc = "done" /\ ~converted.err /\ ~otherConverted.err) =>
    LET a == parsed
        b == parseFlywayVersion(otherStr)
    IN
    /\ IsTimestamp(converted.out)
    /\ IsTimestamp(otherConverted.out)
    /\ TripleLess(a, b) => DigitsLess(converted.out, otherConverted.out)
    /\ TripleLess(b, a) => DigitsLess(otherConverted.out, converted.out)
    /\ TripleEqual(a, b) => converted.out = otherConverted.out

\* Two versions that differ in the patch alone were converted.
TimestampKeepsOrderWitness ==
  /\ verPc = "done"
  /\ verStr = <<"2",".","1",".","3","4","5">>
  /\ otherStr = <<"2",".","1",".","9","9","9","9","9","9">>
  /\ ~converted.err
  /\ ~otherConverted.err
  /\ DigitsLess(converted.out, otherConverted.out)

\* The parts of the message of an error.
MessageParts(err) == {err[i] : i \in 1..Len(err)}

\* C36: when the Flyway or the Goose table name does not match the pattern,
\* CopyMigrateTable returns an error whose message contains "biao ming fei fa"
\* (table name illegal), and it has made no call on the database: no table is
\* created, nothing is read, nothing is inserted; with a nil db it returns as
\* well.
InvalidNameRejectedFirst ==
  (flywayTable \in InvalidNames \/ gooseTable \in InvalidNames) =>
    /\ copyPc \in {"validate", "done"}
    /\ dbOps = <<>>
    /\ ~gooseCreated
    /\ gooseRows = <<>>
    /\ copyPc = "done" => MsgTableName \in MessageParts(copyErr)

\* The call of TestInvalidTableNames, with a nil db, has returned.
InvalidNameRejectedFirstWitness ==
  /\ copyPc = "done"
  /\ driver = "mysql"
  /\ ~dbOpen
  /\ flywayTable = <<"f","l","y","w","a","y","!","h","i","s","t","o","r","y">>
  /\ gooseTable = <<"v","a","l","i","d","_","t","a","b","l","e">>
  /\ MsgTableName \in MessageParts(copyErr)

\* C37: when the Flyway table has no rows and the database runs the query,
\* CopyMigrateTable returns an error whose message contains "wu ban ben ji lu"
\* (no version record), and nothing is inserted into the Goose table.
EmptyTableReported ==
  (/\ copyPc = "done"
   /\ flywayRows = <<>>
   /\ dbOps # <<>>
   /\ Last(dbOps) = "query"
   /\ MsgDb \notin MessageParts(copyErr)) =>
    /\ MsgNoVersion \in MessageParts(copyErr)
    /\ gooseRows = <<>>

====
